---- MODULE Spec2Model ----
(***************************************************************************)
(* TV_Grab: the conversational slot collector of tv_buy_1_0/web/app.py     *)
(* (/api/dialog/3p2 and its session store), the command-line dialogue of   *)
(* tv_buy_1_0/agent/dialogue_3p2.py, and the ranking and selection code    *)
(* they drive (run_reco.py, tools_cli/tv_rank.py).                         *)
(*                                                                         *)
(* Conventions.  A Python Optional value is a tuple: None is <<>> and a    *)
(* present value v is <<v>>.  A text is a sequence of lines and a line is  *)
(* a sequence of string fragments (its concatenation is the rendered       *)
(* line).  The source's Chinese literals are written in ASCII (pinyin or   *)
(* an English gloss); every such literal cites its source line.            *)
(***************************************************************************)
EXTENDS Integers, Sequences, FiniteSets, TLC

VARIABLES
    proc,       \* which program runs: the web app or the CLI dialogue
    _SESS,      \* web/app.py:454  session id -> pack
    now,        \* web/app.py:458  _now_ts(), seconds
    db,         \* rows of the sqlite table tv read by run_reco.all_by_size
    resp,       \* the response of the last request to the web app
    obs,        \* history: what the last web request was and did
    lastRound,  \* history: per session, the result its last completed round returned
    cli,        \* tools_cli/tv_dialog_3p2.py: the loop's `state` dict and where it is
    cliOut,     \* the dict returned by the last Dialogue3p2.chat call
    cliObs,     \* history: what the last chat call was given and computed
    fn,         \* a call of one function by itself: its name, arguments and result
    rc,         \* web/app.py: the handlers of one session id, statement by statement
    px          \* clawdbot_dialog_proxy.py: _LOCK, _CACHE, _PENDING and the threads

vars == <<proc, _SESS, now, db, resp, obs, lastRound, cli, cliOut, cliObs, fn, rc, px>>
webVars == <<_SESS, now, resp, obs, lastRound>>
cliVars == <<cli, cliOut, cliObs>>
fnVars == <<fn>>
raceVars == <<rc>>
proxyVars == <<px>>

----------------------------------------------------------------------------
(* Optional values and small sequence helpers                              *)

None == <<>>
Some(v) == <<v>>
IsNone(o) == o = <<>>
NotNone(o) == o # <<>>
Val(o) == o[1]

Min2(a, b) == IF a <= b THEN a ELSE b
Max2(a, b) == IF a >= b THEN a ELSE b
Abs(a) == IF a < 0 THEN 0 - a ELSE a

\* F applied to the value of v, with v evaluated once
Let(v, F(_)) == CHOOSE r \in {F(x) : x \in {v}} : TRUE

\* the sequence s, held as an explicit tuple
Tuple(s) == s \o <<>>

\* the first n elements of s (Python s[:n])
Take(s, n) == Let(s, LAMBDA v : SubSeq(v, 1, Min2(n, Len(v))))

\* the subsequence of s of the elements satisfying Keep, in order
Filter(s, Keep(_)) == SelectSeq(s, Keep)

\* Python sorted()/list.sort(): the stable sort of s, Before being "has a strictly
\* smaller key"; the element at index i goes after every element with a smaller
\* key and after the earlier elements with an equal key
StableSort(s, Before(_, _)) ==
    LET pos(v, i) == 1 + Cardinality({j \in 1..Len(v) :
                        Before(v[j], v[i]) \/ (~Before(v[i], v[j]) /\ j < i)})
        Sorted(v) == Tuple([k \in 1..Len(v) |-> v[CHOOSE i \in 1..Len(v) : pos(v, i) = k]])
    IN  Let(Tuple(s), Sorted)

Range(s) == {s[i] : i \in 1..Len(s)}

----------------------------------------------------------------------------
(* User texts.  A text is the sequence of its whitespace-separated words;  *)
(* LEX gives, for each word of the vocabulary, what the regular            *)
(* expressions and keyword tests of parse_slots find in it.                *)

W_75      == "75"
W_13K     == "13k"
W_PS5     == "ps5"
W_ONLYTCL == "zhiyao-tcl"   \* app.py:267 alias of tcl, "only tcl"
W_NOTCL   == "paichu-tcl"   \* dialogue_3p2.py:167 "exclude tcl"
W_NOLG    == "paichu-LG"    \* dialogue_3p2.py:167 "exclude LG"
W_ANY     == "buxian"       \* app.py:357 "no brand limit"
W_MORE    == "gengduo"      \* app.py:660 "more"
W_RESET   == "chongzhi"     \* app.py:283 "reset"
W_HELLO   == "hello"

\* numbers typed as a size, bare ("32") or with the unit ("32cun")
SIZE_NUMS == {19, 20, 32, 39, 40, 120, 121}
SizeWord(n) == ToString(n)
UnitWord(n) == ToString(n) \o "cun"
SizeWords == {SizeWord(n) : n \in SIZE_NUMS}
UnitWords == {UnitWord(n) : n \in SIZE_NUMS}
NumOf(w) == CHOOSE n \in SIZE_NUMS : w \in {SizeWord(n), UnitWord(n)}

NoLex ==
    [unit_num |-> None, bare_num |-> None, k_num |-> None, scene_kw |-> None,
     brand_kw |-> None, any_kw |-> FALSE, reset_kw |-> FALSE, size_kw |-> FALSE]

\* unit_num : (\d{2,3})\s*(cun|inch|in|")      app.py:289
\* bare_num : \b(\d{2,3})\b                    app.py:297, 305
\* k_num    : (\d{1,3})\s*k                    app.py:329
\* scene_kw : a keyword of SCENE_MAP           app.py:260-264
\* brand_kw : an alias of BRAND_ALIASES        app.py:266-273
\* any_kw   : a "no brand limit" keyword       app.py:357
\* reset_kw : a reset keyword                  app.py:283
\* size_kw  : a size-context keyword           app.py:296
LEX(w) ==
    CASE w = W_75      -> [NoLex EXCEPT !.bare_num = Some(75)]
      [] w = W_13K     -> [NoLex EXCEPT !.k_num = Some(13)]
      [] w = W_PS5     -> [NoLex EXCEPT !.scene_kw = Some("ps5")]
      [] w = W_ONLYTCL -> [NoLex EXCEPT !.brand_kw = Some("tcl")]
      [] w = W_NOTCL   -> [NoLex EXCEPT !.brand_kw = Some("tcl")]
      [] w = W_NOLG    -> [NoLex EXCEPT !.brand_kw = Some("lg")]
      [] w = W_ANY     -> [NoLex EXCEPT !.any_kw = TRUE]
      [] w = W_RESET   -> [NoLex EXCEPT !.reset_kw = TRUE]
      [] w \in SizeWords -> [NoLex EXCEPT !.bare_num = Some(NumOf(w))]
      [] w \in UnitWords -> [NoLex EXCEPT !.unit_num = Some(NumOf(w))]
      [] OTHER         -> NoLex

MORE_WORDS == {W_MORE, "zhankai", "xiangxi", "xiangqing", "quanwen", "more", "detail"}

\* app.py:658-660: the text with its whitespace removed is one of the words
IsShowMore(text) == Len(text) = 1 /\ text[1] \in MORE_WORDS

\* the first word of text for which Has holds, or 0
FirstWord(text, Has(_)) ==
    IF \E i \in 1..Len(text) : Has(text[i])
    THEN CHOOSE i \in 1..Len(text) : Has(text[i]) /\ \A j \in 1..(i - 1) : ~Has(text[j])
    ELSE 0

SIZE_LO == 40
SIZE_HI == 120
SizeOk(v) == SIZE_LO <= v /\ v <= SIZE_HI

SCENE_ORDER == <<"ps5", "movie", "bright">>
BRAND_ORDER == <<"tcl", "mi", "hisense", "sony", "samsung", "lg">>

\* app.py:342-347: the stored brand for an alias key
BrandOfKey(key) == IF key = "tcl" THEN "TCL" ELSE key

parse_size(text) ==
    LET HasUnit(w) == NotNone(LEX(w).unit_num)
        HasBare(w) == NotNone(LEX(w).bare_num)
        HasBareOk(w) == HasBare(w) /\ SizeOk(Val(LEX(w).bare_num))
        iu == FirstWord(text, HasUnit)
        ib == FirstWord(text, HasBare)
        io == FirstWord(text, HasBareOk)
    IN  IF iu # 0
        THEN IF SizeOk(Val(LEX(text[iu]).unit_num)) THEN LEX(text[iu]).unit_num ELSE None
        ELSE IF (\E i \in 1..Len(text) : LEX(text[i]).size_kw)
                /\ ib # 0 /\ SizeOk(Val(LEX(text[ib]).bare_num))
             THEN LEX(text[ib]).bare_num
             ELSE IF io # 0 THEN LEX(text[io]).bare_num ELSE None

\* the vocabulary has no word for the patterns of app.py:313-328; app.py:329-331
parse_budget(text) ==
    LET HasK(w) == NotNone(LEX(w).k_num)
        ik == FirstWord(text, HasK)
    IN  IF ik # 0 THEN Some(Val(LEX(text[ik]).k_num) * 1000) ELSE None

parse_scene(text) ==
    LET Hit(n) == \E i \in 1..Len(text) : LEX(text[i]).scene_kw = Some(SCENE_ORDER[n])
    IN  IF \E n \in 1..Len(SCENE_ORDER) : Hit(n)
        THEN Some(SCENE_ORDER[CHOOSE n \in 1..Len(SCENE_ORDER) :
                                 Hit(n) /\ \A k \in 1..(n - 1) : ~Hit(k)])
        ELSE None

parse_brand(text) ==
    LET Hit(n) == \E i \in 1..Len(text) : LEX(text[i]).brand_kw = Some(BRAND_ORDER[n])
    IN  IF \E n \in 1..Len(BRAND_ORDER) : Hit(n)
        THEN Some(BrandOfKey(BRAND_ORDER[CHOOSE n \in 1..Len(BRAND_ORDER) :
                                 Hit(n) /\ \A k \in 1..(n - 1) : ~Hit(k)]))
        ELSE None

NoSlots ==
    [_reset |-> FALSE, size |-> None, scene |-> None, budget |-> None,
     brand |-> None, brand_any |-> FALSE]

parse_slots(text) ==
    IF \E i \in 1..Len(text) : LEX(text[i]).reset_kw
    THEN [NoSlots EXCEPT !._reset = TRUE]
    ELSE LET any == \E i \in 1..Len(text) : LEX(text[i]).any_kw
         IN  [_reset |-> FALSE,
              size |-> parse_size(text),
              scene |-> parse_scene(text),
              budget |-> parse_budget(text),
              brand |-> IF any THEN None ELSE parse_brand(text),
              brand_any |-> any]

----------------------------------------------------------------------------
(* Session state of the web dialogue                                       *)

EMPTY_STATE ==
    [size |-> None, budget |-> None, scene |-> None, brand |-> None, brand_any |-> FALSE]

_normalize_state(state) ==
    IF IsNone(state) THEN EMPTY_STATE
    ELSE [size |-> Val(state).size, budget |-> Val(state).budget,
          scene |-> Val(state).scene, brand |-> Val(state).brand,
          brand_any |-> Val(state).brand_any]

_merge_state(base, slots) ==
    LET out == [size   |-> IF NotNone(slots.size) THEN slots.size ELSE base.size,
                budget |-> IF NotNone(slots.budget) THEN slots.budget ELSE base.budget,
                scene  |-> IF NotNone(slots.scene) THEN slots.scene ELSE base.scene,
                brand  |-> IF NotNone(slots.brand) THEN slots.brand ELSE base.brand,
                brand_any |-> base.brand_any]
    IN  IF slots.brand_any
        THEN [out EXCEPT !.brand_any = TRUE, !.brand = None]
        ELSE out

\* _next_missing_slot_4q asking for the budget before the size
_next_missing_slot_4q_BudgetFirst(state) ==
    IF IsNone(state.budget) THEN Some("budget")
    ELSE IF IsNone(state.size) THEN Some("size")
    ELSE IF IsNone(state.scene) THEN Some("scene")
    ELSE IF IsNone(state.brand) /\ ~state.brand_any THEN Some("brand")
    ELSE None

_next_missing_slot_4q(state) ==
    IF IsNone(state.size) THEN Some("size")
    ELSE IF IsNone(state.budget) THEN Some("budget")
    ELSE IF IsNone(state.scene) THEN Some("scene")
    ELSE IF IsNone(state.brand) /\ ~state.brand_any THEN Some("brand")
    ELSE None

\* a one-line text
T1(s) == << <<s>> >>

QUESTION_TEXT_4Q ==
    [size   |-> T1("What size do you want? e.g. 75"),
     budget |-> T1("What is your budget? e.g. 13000 (or 13k)"),
     scene  |-> T1("Main use? ps5 / movie / bright"),
     brand  |-> T1("Any brand? e.g. TCL; if none reply: buxian")]

RESET_PREFIX == "[ok] reset. "                      \* app.py:697
RESET_REPLY == << <<RESET_PREFIX>> \o QUESTION_TEXT_4Q.size[1] >>
NOTHING_TO_SHOW == T1("No previous result to expand yet")      \* app.py:681
GENERATE_FAILED == T1("[x] generating the recommendation failed")   \* app.py:728
GENERATED_NOTICE == T1("Recommendation generated (reply: gengduo for details)")  \* app.py:723
PARSE_FAILED == T1("[x] parsing the request failed")            \* app.py:645

----------------------------------------------------------------------------
(* The candidate store: rows of the sqlite table tv.  street_rmb,          *)
(* launch_date and the metrics are Optional (SQL NULL is None); a launch   *)
(* date "YYYY-MM" is the pair <<YYYY, MM>>.                                *)

Row(brand, model, size_inch, street_rmb, launch_date, lag, nits, vrr) ==
    [brand |-> brand, model |-> model, size_inch |-> size_inch,
     street_rmb |-> street_rmb, launch_date |-> launch_date,
     input_lag_ms_60hz |-> lag, peak_brightness_nits |-> nits, vrr |-> vrr]

\* a launch_date that is the empty text: not NULL, and no date
NO_DATE == <<0, 0>>

R_Q10K == Row("TCL", "Q10K", 75, Some(9999), Some(<<2026, 1>>), Some(10), Some(3000), Some(1))
R_T7K  == Row("TCL", "T7K", 75, Some(5999), Some(<<2025, 6>>), Some(14), Some(2000), Some(1))
R_X11  == Row("TCL", "X11", 75, Some(15000), Some(<<2026, 3>>), Some(8), Some(5000), Some(1))
R_C12  == Row("TCL", "C12", 77, None, Some(<<2026, 2>>), None, Some(2600), None)
R_Z0   == Row("TCL", "Z0", 75, Some(0), Some(<<2026, 4>>), Some(12), Some(1000), Some(0))
R_V8   == Row("TCL", "V8", 75, Some(3999), Some(<<2024, 8>>), Some(20), Some(800), Some(0))
R_Q9   == Row("TCL", "Q9", 75, Some(7999), Some(<<2025, 6>>), None, Some(2400), Some(1))
R_E8S  == Row("hisense", "E8S", 75, Some(8499), Some(<<2025, 9>>), Some(11), Some(2800), Some(1))
R_S55  == Row("TCL", "S55", 55, Some(2999), Some(<<2026, 1>>), Some(15), Some(900), Some(0))
R_OLD  == Row("TCL", "P1", 75, Some(4999), None, Some(16), Some(700), Some(0))
R_U7   == Row("TCL", "U7", 75, Some(4599), Some(NO_DATE), Some(16), Some(700), Some(0))
R_LG   == Row("LG", "C5", 75, Some(11999), Some(<<2026, 3>>), Some(9), Some(1500), Some(1))
R_N5   == Row("TCL", "N5", 75, Some(5799), Some(<<2025, 12>>), Some(14), Some(1950), Some(1))
R_A38  == Row("TCL", "A38", 75, Some(3800), Some(<<2025, 3>>), Some(18), Some(600), Some(0))
R_B38  == Row("TCL", "B38", 75, Some(3800), Some(<<2025, 9>>), Some(18), Some(650), Some(0))
R_A39  == Row("TCL", "A39", 75, Some(3900), Some(<<2025, 6>>), Some(17), Some(700), Some(0))

\* the contents the store can have
DB_FULL  == <<R_Q10K, R_T7K, R_X11, R_C12, R_Z0, R_V8, R_Q9, R_E8S, R_S55, R_OLD>>
DB_DEAR  == <<R_X11, R_C12, R_S55>>
DBS == {DB_FULL, DB_DEAR}

\* the integers a rendered text can carry
NUMS == UNION {{r.size_inch} \cup Range(r.street_rmb) : r \in Range(DB_FULL) \cup Range(DB_DEAR)}

----------------------------------------------------------------------------
(* Exact rationals <<numerator, denominator>>, denominator > 0, for the    *)
(* float arithmetic of the scoring                                         *)

RECURSIVE Gcd(_, _)
Gcd(a, b) == IF b = 0 THEN a ELSE Gcd(b, a % b)
Q(n, d) == LET g == Gcd(Abs(n), d) IN <<n \div g, d \div g>>
QAdd(a, b) == Q(a[1] * b[2] + b[1] * a[2], a[2] * b[2])
QSub(a, b) == Q(a[1] * b[2] - b[1] * a[2], a[2] * b[2])
QMul(a, b) == Q(a[1] * b[1], a[2] * b[2])
QLt(a, b) == a[1] * b[2] < b[1] * a[2]
Q0 == <<0, 1>>
Q1 == <<1, 1>>

----------------------------------------------------------------------------
(* run_reco.py                                                             *)

\* config/profiles.yaml: weights, negative_metrics, boolean_metrics, penalties
METRICS == <<"input_lag_ms_60hz", "peak_brightness_nits", "vrr">>
PROFILES ==
    [ps5 |-> [weights |-> [input_lag_ms_60hz |-> <<2, 5>>, peak_brightness_nits |-> <<2, 5>>,
                           vrr |-> <<1, 5>>],
              negative_metrics |-> {"input_lag_ms_60hz"},
              boolean_metrics |-> {"vrr"},
              penalties |-> << [metric |-> "input_lag_ms_60hz", op |-> "is_null",
                                value |-> 0, multiplier |-> <<9, 10>>],
                               [metric |-> "input_lag_ms_60hz", op |-> ">",
                                value |-> 15, multiplier |-> <<4, 5>>] >>],
     movie |-> [weights |-> [input_lag_ms_60hz |-> <<0, 1>>, peak_brightness_nits |-> <<1, 1>>,
                             vrr |-> <<0, 1>>],
                negative_metrics |-> {},
                boolean_metrics |-> {"vrr"},
                penalties |-> <<>>],
     bright |-> [weights |-> [input_lag_ms_60hz |-> <<0, 1>>, peak_brightness_nits |-> <<1, 1>>,
                              vrr |-> <<0, 1>>],
                 negative_metrics |-> {},
                 boolean_metrics |-> {"vrr"},
                 penalties |-> << [metric |-> "peak_brightness_nits", op |-> "<",
                                   value |-> 1000, multiplier |-> <<4, 5>>] >>]]

load_profile(scene) == PROFILES[scene]

\* Python `not d` for a launch_date: NULL or the empty text
Undated(d) == IsNone(d) \/ Val(d) = NO_DATE

\* str(launch_date) in a rendered line
DateText(d) ==
    IF Val(d) = NO_DATE THEN <<"">> ELSE <<ToString(Val(d)[1]), "-", ToString(Val(d)[2])>>

\* a launch_date text without a month part ("2024") is held as <<2024, 0>>:
\* run_reco.py:80-81, len(parts) < 2
NoMonth(d) == Val(d)[2] = 0

months_ago(yyyymm, today) ==
    IF Undated(yyyymm) \/ NoMonth(yyyymm) THEN None
    ELSE Some((today[1] - Val(yyyymm)[1]) * 12 + (today[2] - Val(yyyymm)[2]))

to_bool01(x) == IF IsNone(x) THEN None ELSE IF Val(x) # 0 THEN Some(1) ELSE Some(0)

norm_pos(x, lo, hi) ==
    IF IsNone(x) \/ hi <= lo THEN Q0
    ELSE Q(Max2(lo, Min2(hi, Val(x))) - lo, hi - lo)

norm_neg(x, lo, hi) == QSub(Q1, norm_pos(x, lo, hi))

\* str.lower() on the brand names of the store and of the parsers
Lower(b) ==
    CASE b = "TCL" -> "tcl"
      [] b = "SONY" -> "sony"
      [] b = "SAMSUNG" -> "samsung"
      [] b = "Hisense" -> "hisense"
      [] b = "LG" -> "lg"
      [] OTHER -> b

norm_brand(brand) ==
    IF IsNone(brand) \/ brand = Some("") THEN None
    ELSE LET b == Lower(Val(brand))
         IN  IF b \in {"tcl", "t.c.l"} THEN Some("tcl")
             ELSE IF b \in {"mi", "xiaomi"} THEN Some("mi")
             ELSE Some(b)

launch_year_from_date(d) == IF Undated(d) THEN 0 ELSE Val(d)[1]

\* a database price is a number or NULL here: isinstance(p, (int, float))
parse_price(p) == p

date_rank(d) == IF Undated(d) THEN 0 ELSE Val(d)[1] * 10000 + Val(d)[2] * 100 + 1

minmax(cands, key) ==
    LET vals == {Val(cands[i][key]) : i \in {j \in 1..Len(cands) : NotNone(cands[j][key])}}
    IN  IF vals = {} THEN <<0, 1>>
        ELSE <<CHOOSE v \in vals : \A u \in vals : v <= u,
               CHOOSE v \in vals : \A u \in vals : v >= u>>

SIZE_WINDOW == 5
all_by_size(rows, target) ==
    LET InWindow(r) == /\ NotNone(r.launch_date)
                       /\ target - SIZE_WINDOW <= r.size_inch
                       /\ r.size_inch <= target + SIZE_WINDOW
    IN  Filter(rows, InWindow)

apply_filters(cands, brand, budget) ==
    LET bkey == norm_brand(brand)
        Pass(tv) ==
            /\ NotNone(bkey) => norm_brand(Some(tv.brand)) = bkey
            /\ NotNone(budget) =>
                  /\ NotNone(parse_price(tv.street_rmb))
                  /\ ~(Val(parse_price(tv.street_rmb)) > Val(budget))
    IN  Filter(cands, Pass)

\* run_reco.py:337-340
BoolNormalized(tv, prof) ==
    [f \in DOMAIN tv |-> IF f \in prof.boolean_metrics THEN to_bool01(tv[f]) ELSE tv[f]]

\* run_reco.py:350-356, parts[k]: what metric k adds to the score of tv
Part(tv, cands, prof, k) ==
    LET st == minmax(cands, k)
        sk == IF k \in prof.negative_metrics
              THEN norm_neg(tv[k], st[1], st[2])
              ELSE norm_pos(tv[k], st[1], st[2])
    IN  QMul(sk, prof.weights[k])

\* run_reco.py:349-357, the weighted sum over the first n metrics of the profile
RECURSIVE WeightedSum(_, _, _, _)
WeightedSum(tv, cands, prof, n) ==
    IF n = 0 THEN Q0
    ELSE QAdd(WeightedSum(tv, cands, prof, n - 1), Part(tv, cands, prof, METRICS[n]))

\* PenaltyApplies that reads an absent metric as 0 in a comparison
PenaltyApplies_AbsentAsZero(pen, x) ==
    IF pen.op = "is_null" THEN IsNone(x)
    ELSE IF pen.op = "not_null" THEN NotNone(x)
    ELSE LET v == IF IsNone(x) THEN 0 ELSE Val(x)
         IN  \/ pen.op = ">" /\ v > pen.value
             \/ pen.op = ">=" /\ v >= pen.value
             \/ pen.op = "<" /\ v < pen.value
             \/ pen.op = "<=" /\ v <= pen.value
             \/ pen.op = "==" /\ v = pen.value

\* run_reco.py:360-386, one penalty rule
PenaltyApplies(pen, x) ==
    IF pen.op = "is_null" /\ IsNone(x) THEN TRUE
    ELSE IF pen.op = "not_null" /\ NotNone(x) THEN TRUE
    ELSE IF IsNone(x) THEN FALSE
    ELSE \/ pen.op = ">" /\ Val(x) > pen.value
         \/ pen.op = ">=" /\ Val(x) >= pen.value
         \/ pen.op = "<" /\ Val(x) < pen.value
         \/ pen.op = "<=" /\ Val(x) <= pen.value
         \/ pen.op = "==" /\ Val(x) = pen.value

RECURSIVE Penalized(_, _, _, _)
Penalized(score, tv, pens, n) ==
    IF n = 0 THEN score
    ELSE LET before == Penalized(score, tv, pens, n - 1)
         IN  IF PenaltyApplies(pens[n], tv[pens[n].metric])
             THEN QMul(before, pens[n].multiplier)
             ELSE before

AGE_LIMIT_MONTHS == 12
OLD_MULTIPLIER == <<23, 25>>      \* run_reco.py:391  0.92

\* ScoreOf that decays a candidate launched exactly 12 months ago too
ScoreOf_DecayAt12(tv, cands, prof, today) ==
    LET base == WeightedSum(tv, cands, prof, Len(METRICS))
        pen == Penalized(base, tv, prof.penalties, Len(prof.penalties))
        age == months_ago(tv.launch_date, today)
    IN  IF NotNone(age) /\ Val(age) >= AGE_LIMIT_MONTHS THEN QMul(pen, OLD_MULTIPLIER) ELSE pen

\* run_reco.py:345-397, the score of one candidate
ScoreOf(tv, cands, prof, today) ==
    LET base == WeightedSum(tv, cands, prof, Len(METRICS))
        pen == Penalized(base, tv, prof.penalties, Len(prof.penalties))
        age == months_ago(tv.launch_date, today)
    IN  IF NotNone(age) /\ Val(age) > AGE_LIMIT_MONTHS THEN QMul(pen, OLD_MULTIPLIER) ELSE pen

YEAR_PREFER == 2026
TOP_N == 3

\* run_reco.py:400-406, the sort key (year bucket, -score, -date_rank)
RankedBefore(a, b) ==
    LET ba == IF a._year = YEAR_PREFER THEN 0 ELSE 1
        bb == IF b._year = YEAR_PREFER THEN 0 ELSE 1
    IN  \/ ba < bb
        \/ ba = bb /\ QLt(b._score, a._score)
        \/ ba = bb /\ a._score = b._score
           /\ date_rank(a.launch_date) > date_rank(b.launch_date)

get_top3(rows, size, scene, brand, budget, today) ==
    LET prof == load_profile(scene)
        Normalized(filtered) ==
            Tuple([i \in 1..Len(filtered) |-> BoolNormalized(filtered[i], prof)])
        Scored(tv, cands) == [_score |-> ScoreOf(tv, cands, prof, today),
                              _year |-> launch_year_from_date(tv.launch_date)] @@ tv
        Ranked(cands) ==
            IF cands = <<>> THEN <<>>
            ELSE Take(StableSort([i \in 1..Len(cands) |-> Scored(cands[i], cands)],
                                 RankedBefore), TOP_N)
    IN  Let(Let(apply_filters(all_by_size(rows, size), brand, budget), Normalized), Ranked)

\* run_reco.py:90-97
fmt(x) ==
    IF IsNone(x) THEN "?"
    ELSE IF Val(x) = 1 THEN "you"
    ELSE IF Val(x) = 0 THEN "wu"
    ELSE ToString(Val(x))

SCENE_DESC ==
    [ps5 |-> "PS5 gaming: input lag > HDMI2.1/ALLM/VRR > brightness",
     movie |-> "Movies: local dimming > brightness > reflection > price",
     bright |-> "Bright room: brightness > price > dimming > gamut"]

NITS_WARN == 6000
BAR_LAUNCH == " | shoufa "
BAR_PRICE == " | RMB"
NOT_FOUND_LINE == <<"[!] no model matches the current conditions">>   \* run_reco.py:465
ONE_LINER_MARK == <<"Yijuhua jielun:">>                               \* run_reco.py:496
TOP3_TITLE == <<"Top 3 (sorted within the filtered candidates)">>     \* run_reco.py:472

\* run_reco.py:475-480, the line of the i-th pick
TopLine(i, tv) ==
    <<ToString(i), ". ", tv.brand, " ", tv.model, " ", ToString(tv.size_inch), "cun",
      BAR_LAUNCH>> \o DateText(tv.launch_date) \o <<BAR_PRICE, fmt(tv.street_rmb)>>
    \o (IF NotNone(tv.peak_brightness_nits) /\ Val(tv.peak_brightness_nits) > NITS_WARN
        THEN <<" [!] aggressive brightness figure">> ELSE <<>>)

\* reasons_v2.py: the reasons and the "not suited" line of one pick
ReasonLines(tv, scene) ==
    << <<"   - ", "reasons_", scene, "_v2 ", tv.model>>,
       <<"   - bu shihe: ", tv.model>>,
       <<>> >>

\* reasons_v2.py:304-334: the two lines of top1_summary_<scene>
SummaryLines(tv, scene) ==
    << <<tv.brand, " ", tv.model, " top1_summary_", scene, " line1">>,
       <<"top1_summary_", scene, " line2">> >>

RECURSIVE PickLines(_, _, _)
PickLines(top3, scene, n) ==
    IF n = 0 THEN <<>>
    ELSE PickLines(top3, scene, n - 1) \o <<TopLine(n, top3[n])>> \o ReasonLines(top3[n], scene)

\* ENABLE_LLM is off (config/settings.py:8 default), so the text is base_text
recommend_text(rows, size, scene, brand, budget, today) ==
    Let(get_top3(rows, size, scene, brand, budget, today), LAMBDA top3 :
    LET head == <<"TV 1.0 | ", ToString(size), " cun | scene=", scene>>
                \o (IF NotNone(brand) /\ Val(brand) # "" THEN <<" | brand=", Val(brand)>> ELSE <<>>)
                \o (IF NotNone(budget) THEN <<" | budget<=", ToString(Val(budget))>> ELSE <<>>)
                \o <<" | prefer_year=", ToString(YEAR_PREFER)>>
        lines == <<head, <<SCENE_DESC[scene]>> >>
    IN  IF top3 = <<>>
        THEN lines \o << <<>>, NOT_FOUND_LINE >>
             \o (IF NotNone(budget)
                 THEN << <<"hint: maybe every ", ToString(YEAR_PREFER),
                           " model is over budget or has no price (hard filter)">> >>
                 ELSE <<>>)
             \o << <<"you can: relax the brand / raise the budget / change the size">> >>
        ELSE lines \o << <<>>, TOP3_TITLE, <<"-----">> >>
             \o PickLines(top3, scene, Len(top3))
             \o <<ONE_LINER_MARK>> \o SummaryLines(top3[1], scene))

----------------------------------------------------------------------------
(* web/app.py: the dialogue endpoint                                       *)

_run_3p2(rows, state, today) ==
    recommend_text(rows, Val(state.size), Val(state.scene), state.brand, state.budget, today)

\* int() of a run of digits, for the numbers a text can carry
ParseInt(s) == IF \E n \in NUMS : ToString(n) = s
               THEN Some(CHOOSE n \in NUMS : ToString(n) = s)
               ELSE None

\* app.py:556-562: ^(1|2|3)\.\s+(.+)$ on a line that has a "|"
IsTopLine(line) ==
    /\ Len(line) >= 3
    /\ line[1] \in {"1", "2", "3"}
    /\ line[2] = ". "
    /\ \E i \in 1..Len(line) : line[i] \in {BAR_LAUNCH, BAR_PRICE}

PRICE_DIGITS_LO == 100       \* app.py:568  [0-9]{3,6}
PRICE_DIGITS_HI == 999999
SIZE_DIGITS_LO == 10         \* app.py:573  \d{2,3}
SIZE_DIGITS_HI == 999

\* app.py:564-580, the entry of one pick line
TopEntry(line) ==
    LET ip == CHOOSE i \in 1..Len(line) : line[i] = BAR_PRICE
        ic == IF \E i \in 1..Len(line) : line[i] = "cun"
              THEN CHOOSE i \in 1..Len(line) : line[i] = "cun" ELSE 0
        pr == IF (\E i \in 1..Len(line) : line[i] = BAR_PRICE) /\ ip < Len(line)
              THEN ParseInt(line[ip + 1]) ELSE None
        sz == IF ic > 1 THEN ParseInt(line[ic - 1]) ELSE None
    IN  [rank |-> CHOOSE r \in 1..3 : ToString(r) = line[1],
         model |-> IF ic > 4 THEN SubSeq(line, 3, ic - 3) ELSE SubSeq(line, 3, Len(line)),
         size |-> IF NotNone(sz) /\ SIZE_DIGITS_LO <= Val(sz) /\ Val(sz) <= SIZE_DIGITS_HI
                  THEN sz ELSE None,
         price |-> IF NotNone(pr) /\ PRICE_DIGITS_LO <= Val(pr) /\ Val(pr) <= PRICE_DIGITS_HI
                   THEN pr ELSE None]

EntryBefore(a, b) == a.rank < b.rank

\* app.py:589-592, the line of one entry of the short reply
ShortLine(e) ==
    <<ToString(e.rank), ". ">> \o e.model \o <<" ">>
    \o (IF NotNone(e.size) /\ Val(e.size) # 0 THEN <<ToString(Val(e.size)), "cun">> ELSE <<>>)
    \o <<" ">>
    \o (IF NotNone(e.price) /\ Val(e.price) # 0 THEN <<"RMB", ToString(Val(e.price))>>
        ELSE <<"RMB?">>)

_build_short_and_structured(reply_full) ==
    Let(reply_full, LAMBDA text :
    LET im == IF \E i \in 1..Len(text) : text[i] = ONE_LINER_MARK
              THEN CHOOSE i \in 1..Len(text) :
                      text[i] = ONE_LINER_MARK /\ \A j \in 1..(i - 1) : text[j] # ONE_LINER_MARK
              ELSE 0
        one_liner == IF im # 0 /\ im < Len(text) /\ text[im + 1] # <<>>
                     THEN Some(text[im + 1]) ELSE None
        picks == Filter(text, IsTopLine)
        top3 == StableSort([i \in 1..Len(picks) |-> TopEntry(picks[i])], EntryBefore)
        structured == [top3 |-> top3, one_liner |-> one_liner]
        lines_out ==
            (IF NotNone(one_liner) THEN << <<"Yijuhua: ">> \o Val(one_liner) >> ELSE <<>>)
            \o (IF top3 # <<>>
                THEN << <<"Top3:">> >> \o [i \in 1..Len(top3) |-> ShortLine(top3[i])]
                     \o << <<"(reply: gengduo for the detailed analysis)">> >>
                ELSE <<>>)
    IN  [reply_short |-> Tuple(lines_out), structured |-> structured])

----------------------------------------------------------------------------
(* web/app.py: the session store                                           *)

Sessions == {"t1"}

SESS_GC_MIN == 2000              \* app.py:463
CACHE_TTL_SEC == 600              \* clawdbot_dialog_proxy.py:62

_SESS_TTL_SEC == 60 * 60 * 24    \* app.py:455

\* the wall clock starts in this month and the runs checked stay within it
START_MONTH == <<2026, 11>>
TodayOf(ts) == START_MONTH

NewPack(ts) ==
    [state |-> EMPTY_STATE, _ts |-> ts, last_reply_full |-> None,
     last_reply_short |-> None, last_structured |-> None, last_state |-> None]

\* the session ids _gc_sessions removes
Dead(S, n_others, ts) ==
    IF Cardinality(DOMAIN S) + n_others < SESS_GC_MIN THEN {}
    ELSE {sid \in DOMAIN S : ts - S[sid]._ts > _SESS_TTL_SEC}

_gc_sessions(S, n_others, ts) ==
    [sid \in DOMAIN S \ Dead(S, n_others, ts) |-> S[sid]]

\* the store after _get_session(sid): the pack exists and is touched
_get_session(S, n_others, ts, sid) ==
    Let(_gc_sessions(S, n_others, ts), LAMBDA S1 :
        LET pack == IF sid \in DOMAIN S1 THEN S1[sid] ELSE NewPack(ts)
        IN  [x \in DOMAIN S1 \cup {sid} |->
                IF x = sid THEN [pack EXCEPT !._ts = ts] ELSE S1[x]] @@ <<>>)

DialogResp(ok, sid, reply, state, done, reply_short, reply_full, structured) ==
    [ok |-> ok, session_id |-> sid, reply |-> reply, state |-> state, done |-> done,
     reply_short |-> reply_short, reply_full |-> reply_full, structured |-> structured]

\* Python truthiness of an Optional text
Truthy(o) == NotNone(o) /\ Val(o) # <<>>

\* ShowMore that replies with the short text of the cached result
ShowMore_Short(pack, sid) ==
    LET last_state == _normalize_state(IF NotNone(pack.last_state)
                                       THEN pack.last_state ELSE Some(pack.state))
    IN  IF Truthy(pack.last_reply_full)
        THEN [pack |-> pack, kind |-> "more_hit", calls |-> 0, picks |-> <<>>,
              resp |-> DialogResp(TRUE, sid, Val(pack.last_reply_short), last_state, TRUE,
                                  pack.last_reply_short, pack.last_reply_full,
                                  pack.last_structured)]
        ELSE [pack |-> pack, kind |-> "more_miss", calls |-> 0, picks |-> <<>>,
              resp |-> DialogResp(TRUE, sid, NOTHING_TO_SHOW, last_state, FALSE,
                                  None, None, None)]

\* ShowMore that starts a fresh round: the stored slots are emptied
ShowMore_FreshRound(pack, sid) ==
    LET last_full == pack.last_reply_full
        last_state == _normalize_state(IF NotNone(pack.last_state)
                                       THEN pack.last_state ELSE Some(pack.state))
        fresh == [pack EXCEPT !.state = EMPTY_STATE]
    IN  IF Truthy(last_full)
        THEN [pack |-> fresh, kind |-> "more_hit", calls |-> 0, picks |-> <<>>,
              resp |-> DialogResp(TRUE, sid, Val(last_full), last_state, TRUE,
                                  pack.last_reply_short, last_full, pack.last_structured)]
        ELSE [pack |-> fresh, kind |-> "more_miss", calls |-> 0, picks |-> <<>>,
              resp |-> DialogResp(TRUE, sid, NOTHING_TO_SHOW, last_state, FALSE,
                                  None, None, None)]

\* app.py:660-684, the reply to a "show more" command
ShowMore(pack, sid) ==
    LET last_full == pack.last_reply_full
        last_state == _normalize_state(IF NotNone(pack.last_state)
                                       THEN pack.last_state ELSE Some(pack.state))
    IN  IF Truthy(last_full)
        THEN [pack |-> pack, kind |-> "more_hit", calls |-> 0, picks |-> <<>>,
              resp |-> DialogResp(TRUE, sid, Val(last_full), last_state, TRUE,
                                  pack.last_reply_short, last_full, pack.last_structured)]
        ELSE [pack |-> pack, kind |-> "more_miss", calls |-> 0, picks |-> <<>>,
              resp |-> DialogResp(TRUE, sid, NOTHING_TO_SHOW, last_state, FALSE,
                                  None, None, None)]

\* ResetPack that leaves the cached result in place
ResetPack_KeepsCache(pack) == [pack EXCEPT !.state = EMPTY_STATE]

\* app.py:688-700, the in-band reset
ResetPack(pack) ==
    [pack EXCEPT !.state = EMPTY_STATE, !.last_reply_full = None,
                 !.last_reply_short = None, !.last_structured = None,
                 !.last_state = None]

\* Reset that answers with the state it found
Reset_KeepsState(pack, sid) ==
    [pack |-> pack, kind |-> "reset", calls |-> 0, picks |-> <<>>,
     resp |-> DialogResp(TRUE, sid, RESET_REPLY, pack.state, FALSE, None, None, None)]

Reset(pack, sid) ==
    Let(ResetPack(pack), LAMBDA p :
        [pack |-> p, kind |-> "reset", calls |-> 0, picks |-> <<>>,
         resp |-> DialogResp(TRUE, sid, RESET_REPLY, p.state, FALSE, None, None, None)])

\* CompletedPack without the reset of the state (app.py:738 left out)
CompletedPack_KeepsState(pack, state, reply_full, reply_short, structured) ==
    [pack EXCEPT !.last_reply_full = Some(reply_full),
                 !.last_reply_short = Some(reply_short),
                 !.last_structured = Some(structured),
                 !.last_state = Some(state)]

\* app.py:733-738, the cache and the state after a completed round
CompletedPack(pack, state, reply_full, reply_short, structured) ==
    [pack EXCEPT !.last_reply_full = Some(reply_full),
                 !.last_reply_short = Some(reply_short),
                 !.last_structured = Some(structured),
                 !.last_state = Some(state),
                 !.state = EMPTY_STATE]

\* app.py:717-723: the engine's text, its short form and its structure;
\* picks is history: the candidates the engine chose for that text
Generate(rows, state, today) ==
    Let(_run_3p2(rows, state, today), LAMBDA reply_full :
    Let(_build_short_and_structured(reply_full), LAMBDA built :
        [reply_full |-> reply_full,
         reply_short |-> IF built.reply_short = <<>> THEN GENERATED_NOTICE
                         ELSE built.reply_short,
         structured |-> built.structured,
         picks |-> get_top3(rows, Val(state.size), Val(state.scene), state.brand,
                            state.budget, today)]))

\* Generate over the stores and the complete states of this model, computed once
COMPLETE_STATES ==
    [size : {Some(75)}, budget : {Some(13000)}, scene : {Some("ps5")},
     brand : {None, Some("TCL")}, brand_any : BOOLEAN]

\* (f @@ <<>> is f, held as an explicit table)
GENERATED ==
    [a \in DBS \X COMPLETE_STATES |-> Generate(a[1], a[2], START_MONTH)] @@ <<>>

Generated(rows, state, today) ==
    IF today = START_MONTH /\ <<rows, state>> \in DOMAIN GENERATED
    THEN GENERATED[<<rows, state>>]
    ELSE Generate(rows, state, today)

\* RunRound reporting an engine failure with done=true
RunRound_FailDone(pack, sid, state, rows, today, src_ok) ==
    IF ~src_ok
    THEN [pack |-> pack, kind |-> "failed", calls |-> 1, picks |-> <<>>,
          resp |-> DialogResp(FALSE, sid, GENERATE_FAILED, state, TRUE, None, None, None)]
    ELSE Let(Generated(rows, state, today), LAMBDA g :
             [pack |-> CompletedPack(pack, state, g.reply_full, g.reply_short, g.structured),
              kind |-> "done", calls |-> 1, picks |-> g.picks,
              resp |-> DialogResp(TRUE, sid, g.reply_short, state, TRUE,
                                  Some(g.reply_short), Some(g.reply_full),
                                  Some(g.structured))])

\* app.py:715-749, the round once no slot is missing
RunRound(pack, sid, state, rows, today, src_ok) ==
    IF ~src_ok
    THEN [pack |-> pack, kind |-> "failed", calls |-> 1, picks |-> <<>>,
          resp |-> DialogResp(FALSE, sid, GENERATE_FAILED, state, FALSE, None, None, None)]
    ELSE Let(Generated(rows, state, today), LAMBDA g :
             [pack |-> CompletedPack(pack, state, g.reply_full, g.reply_short, g.structured),
              kind |-> "done", calls |-> 1, picks |-> g.picks,
              resp |-> DialogResp(TRUE, sid, g.reply_short, state, TRUE,
                                  Some(g.reply_short), Some(g.reply_full),
                                  Some(g.structured))])

\* app.py:702-713, the merge and the question for the first missing slot
Collect(pack, sid, slots, rows, today, src_ok) ==
    Let(_merge_state(_normalize_state(Some(pack.state)), slots), LAMBDA state :
    Let([pack EXCEPT !.state = state], LAMBDA p :
    Let(_next_missing_slot_4q(state), LAMBDA missing :
        IF NotNone(missing)
        THEN [pack |-> p, kind |-> "question", calls |-> 0, picks |-> <<>>,
              resp |-> DialogResp(TRUE, sid, QUESTION_TEXT_4Q[Val(missing)], state, FALSE,
                                  None, None, None)]
        ELSE RunRound(p, sid, state, rows, today, src_ok))))

\* app.py:650-749, the handler on the pack _get_session returned
api_dialog_3p2(pack0, sid, text, req_state, rows, today, src_ok) ==
    Let(IF NotNone(req_state)
        THEN [pack0 EXCEPT !.state = _normalize_state(req_state)] ELSE pack0, LAMBDA pack :
    Let(parse_slots(text), LAMBDA slots :
        IF IsShowMore(text) THEN ShowMore(pack, sid)
        ELSE IF slots._reset THEN Reset(pack, sid)
        ELSE Collect(pack, sid, slots, rows, today, src_ok)))

----------------------------------------------------------------------------------------------------------------------------------------
(* tools_cli/tv_rank.py: the newest-first ranking the CLI dialogue calls   *)

\* tuples of integers compared as Python compares tuples
TupleLess(a, b) ==
    \E i \in 1..Len(a) : a[i] < b[i] /\ \A j \in 1..(i - 1) : a[j] = b[j]

\* run_reco.py:253-286; a missing price sorts last (10**18)
list_candidates(rows, size, brand, budget, limit) ==
    LET cands == apply_filters(all_by_size(rows, size), brand, budget)
        year_bucket(tv) ==
            LET y == launch_year_from_date(tv.launch_date)
            IN  IF y = 2026 THEN 0 ELSE IF y = 2025 THEN 1 ELSE 2
        key(tv) ==
            <<year_bucket(tv), 0 - date_rank(tv.launch_date)>>
            \o (IF IsNone(parse_price(tv.street_rmb)) THEN <<1, 0>>
                ELSE <<0, Val(parse_price(tv.street_rmb))>>)
        Before(a, b) == TupleLess(key(a), key(b))
        sorted == StableSort(cands, Before)
    IN  [total |-> Len(cands), cands |-> Take(sorted, limit)]

\* tv_rank.py:71-89
_norm_brand(brand) ==
    IF IsNone(brand) \/ brand = Some("") THEN None
    ELSE LET low == Lower(Val(brand))
         IN  IF low = "tcl" THEN Some("TCL")
             ELSE IF low = "hisense" THEN Some("Hisense")
             ELSE IF low = "sony" THEN Some("SONY")
             ELSE IF low = "samsung" THEN Some("SAMSUNG")
             ELSE brand

\* tv_rank.py:92-110, "2026-01" -> 20260101
rank_launch_key(launch_date) ==
    IF Undated(launch_date) THEN 0
    ELSE Val(launch_date)[1] * 10000 + Val(launch_date)[2] * 100 + 1

_launch_year(launch_date) == IF Undated(launch_date) THEN 0 ELSE Val(launch_date)[1]

_recent_bucket(launch_date, prefer_year) ==
    LET y == _launch_year(launch_date)
    IN  IF y = prefer_year THEN 0 ELSE IF y > 0 THEN 1 ELSE 2

\* a database price is an integer or NULL
_safe_price(v) == v

_filter_no_price(rows) ==
    LET Priced(r) == NotNone(_safe_price(r.street_rmb)) /\ Val(_safe_price(r.street_rmb)) > 0
    IN  Filter(rows, Priced)

POOL_LIMIT == 800
rank_newest_first(rows, size, scene, brand, budget_max, prefer_year, limit_pool) ==
    LET key(x) == <<_recent_bucket(x.launch_date, prefer_year),
                    0 - rank_launch_key(x.launch_date),
                    0 - Val(_safe_price(x.street_rmb))>>
        Before(a, b) == TupleLess(key(a), key(b))
    IN  StableSort(_filter_no_price(
                       list_candidates(rows, size, brand, budget_max, limit_pool).cands),
                   Before)

TOP_CAP == 50
tool_call(rows, size, scene, brand, budget_max, prefer_year, top) ==
    LET topn == Max2(1, Min2(TOP_CAP, top))
        Item(tv, i) == [rank |-> i, brand |-> tv.brand, model |-> tv.model,
                        size_inch |-> tv.size_inch, price_cny |-> tv.street_rmb,
                        launch_date |-> tv.launch_date]
    IN  Let(rank_newest_first(rows, size, scene, _norm_brand(brand), budget_max,
                              prefer_year, POOL_LIMIT), LAMBDA ranked :
            [i \in 1..Min2(topn, Len(ranked)) |-> Item(ranked[i], i)])

----------------------------------------------------------------------------
(* agent/dialogue_3p2.py: the fixed four questions and the 3+2 result.     *)
(* CLEX gives what the parsers of the module find in a word.               *)

W_RESET_EN == "reset"
W_EXIT     == "exit"

\* digits   : the word with every non-digit removed       dialogue_3p2.py:113, 125
\* k_num    : (\d+(?:\.\d+)?)\s*k                         dialogue_3p2.py:99
\* mode, brands, prefixed : _parse_brand_attitude on the word; prefixed when
\*            one of the prefixes of lines 160, 166 matched
CLEX(w) ==
    LET plain == [digits |-> "", k_num |-> None, mode |-> "only", brands |-> <<w>>,
                  prefixed |-> FALSE]
    IN  CASE w = W_75      -> [plain EXCEPT !.digits = "75"]
          [] w = W_13K     -> [plain EXCEPT !.digits = "13", !.k_num = Some(13)]
          [] w = W_PS5     -> [plain EXCEPT !.digits = "5"]
          [] w = W_ONLYTCL -> [plain EXCEPT !.brands = <<"tcl">>, !.prefixed = TRUE]
          [] w = W_NOTCL   -> [plain EXCEPT !.mode = "exclude", !.brands = <<"tcl">>,
                                            !.prefixed = TRUE]
          [] w = W_NOLG    -> [plain EXCEPT !.mode = "exclude", !.brands = <<"lg">>,
                                            !.prefixed = TRUE]
          [] w = W_ANY     -> [plain EXCEPT !.mode = "any", !.brands = <<>>]
          [] w \in SizeWords \cup UnitWords -> [plain EXCEPT !.digits = ToString(NumOf(w))]
          [] OTHER         -> plain

RECURSIVE Digits(_)
Digits(text) == IF text = <<>> THEN "" ELSE CLEX(Head(text)).digits \o Digits(Tail(text))

\* int() of the digit strings the vocabulary can make
CLI_NUMS == {5, 13, 75, 135, 755, 513, 1375, 75135} \cup SIZE_NUMS
IntOf(digits) == CHOOSE n \in CLI_NUMS : ToString(n) = digits

CLI_SIZE_LO == 20
CLI_SIZE_HI == 120
_safe_size(text) ==
    LET digits == Digits(text)
    IN  IF digits = "" \/ ~(\E n \in CLI_NUMS : ToString(n) = digits) THEN None
        ELSE IF CLI_SIZE_LO <= IntOf(digits) /\ IntOf(digits) <= CLI_SIZE_HI
             THEN Some(IntOf(digits)) ELSE None

\* the vocabulary has no word for the patterns of lines 92 and 106
_safe_int_from_text(text) ==
    LET HasK(w) == NotNone(CLEX(w).k_num)
        ik == FirstWord(text, HasK)
        digits == Digits(text)
    IN  IF text = <<>> THEN None
        ELSE IF ik # 0 THEN Some(Val(CLEX(text[ik]).k_num) * 1000)
        ELSE IF digits # "" /\ (\E n \in CLI_NUMS : ToString(n) = digits)
             THEN Some(IntOf(digits)) ELSE None

_norm_scene(text) ==
    IF Len(text) = 1 /\ text[1] \in {"movie", "ps5", "bright", "sport"}
    THEN Some(text[1]) ELSE None

_parse_brand_attitude(text) ==
    IF text = <<>> THEN [mode |-> None, brands |-> <<>>]
    ELSE IF Len(text) = 1
         THEN [mode |-> Some(CLEX(text[1]).mode), brands |-> CLEX(text[1]).brands]
         ELSE IF CLEX(text[1]).prefixed
              THEN [mode |-> Some(CLEX(text[1]).mode),
                    brands |-> CLEX(text[1]).brands \o Tail(text)]
              ELSE [mode |-> None, brands |-> <<>>]

_brand_to_db(brand) ==
    LET low == Lower(brand)
    IN  IF low = "tcl" THEN "TCL"
        ELSE IF low = "sony" THEN "SONY"
        ELSE IF low = "samsung" THEN "SAMSUNG"
        ELSE IF low = "hisense" THEN "hisense"
        ELSE brand

\* dialogue_3p2.py:182-194, "2026-01" -> 202601
_launch_key(launch_date) ==
    IF Undated(launch_date) THEN 0 ELSE Val(launch_date)[1] * 100 + Val(launch_date)[2]

\* an item of tool_call carries price_cny only
_get_price(tv) ==
    IF NotNone(tv.price_cny) /\ Val(tv.price_cny) > 0 THEN tv.price_cny ELSE None

_model_of(tv) == tv.model

reset_state ==
    [size |-> None, budget_max |-> None, scene |-> None, brand_mode |-> "any",
     brand_list |-> <<>>, brand_asked |-> FALSE]

_load_state(d) == IF IsNone(d) THEN reset_state ELSE Val(d)

_brand_for_tool(st) ==
    IF st.brand_mode = "only" /\ st.brand_list # <<>>
    THEN Some(_brand_to_db(st.brand_list[1])) ELSE None

_apply_brand_exclude(items, st) ==
    LET ex == {_brand_to_db(st.brand_list[i]) : i \in 1..Len(st.brand_list)}
        Keep(t) == ~(_brand_to_db(t.brand) # "" /\ _brand_to_db(t.brand) \in ex)
    IN  IF st.brand_mode # "exclude" \/ ex = {} THEN items ELSE Filter(items, Keep)

_apply_budget_and_price_filter(items, budget_max) ==
    LET Keep(t) == /\ NotNone(_get_price(t))
                   /\ Val(_get_price(t)) > 0
                   /\ ~(Val(_get_price(t)) > budget_max)
    IN  Filter(items, Keep)

PriceOr0(t) == IF NotNone(_get_price(t)) THEN Val(_get_price(t)) ELSE 0

\* sorted(..., reverse=True): larger keys first, equal keys in their order
_sort_recent_then_price(items) ==
    LET key(t) == <<_launch_key(t.launch_date), PriceOr0(t)>>
        Before(a, b) == TupleLess(key(b), key(a))
    IN  StableSort(items, Before)

\* the budgets below 16385 for which the double product budget_max * 0.70 is
\* just below the integer 7 * budget_max / 10 (0.70 is the double
\* 0.69999999999999995559...): multiples of 10 in these ranges, e.g.
\* 5500 * 0.70 = 3849.9999999999995
FLOAT_SHORT == {<<90, 90>>, <<170, 180>>, <<330, 360>>, <<650, 730>>, <<1290, 1460>>,
                <<2570, 2920>>, <<5130, 5850>>, <<10250, 11700>>}

\* int(budget_max * 0.70): the float product, truncated
TargetOf(budget_max) ==
    IF budget_max % 10 = 0 /\ \E r \in FLOAT_SHORT : r[1] <= budget_max /\ budget_max <= r[2]
    THEN (budget_max * 7) \div 10 - 1
    ELSE (budget_max * 7) \div 10

\* the key of low_sorted (dialogue_3p2.py:391): price ascending, then newer first
low_sorted_key_PriceOnly(t) == <<Val(_get_price(t)), 0>>

low_sorted_key(t) == <<Val(_get_price(t)), 0 - _launch_key(t.launch_date)>>

\* dialogue_3p2.py:367-413
_pick_low_and_mid(pool, used_models, budget_max) ==
    LET Keep(t) == /\ _model_of(t) # "" /\ _model_of(t) \notin used_models
                   /\ NotNone(_get_price(t))
                   /\ Val(_get_price(t)) > 0
                   /\ ~(Val(_get_price(t)) > budget_max)
        LowBefore(a, b) == TupleLess(low_sorted_key(a), low_sorted_key(b))
        target == TargetOf(budget_max)
        midKey(t) == <<Abs(PriceOr0(t) - target), 0 - _launch_key(t.launch_date),
                       0 - PriceOr0(t)>>
        MidBefore(a, b) == TupleLess(midKey(a), midKey(b))
        Pick(low_best, mid_sorted) ==
            LET Other(i) == _model_of(mid_sorted[i]) # _model_of(low_best)
            IN  IF _model_of(low_best) = _model_of(mid_sorted[1])
                   /\ \E i \in 2..Len(mid_sorted) : Other(i)
                THEN [low |-> Some(low_best),
                      mid |-> Some(mid_sorted[CHOOSE i \in 2..Len(mid_sorted) :
                                     Other(i) /\ \A j \in 2..(i - 1) : ~Other(j)])]
                ELSE [low |-> Some(low_best), mid |-> Some(mid_sorted[1])]
    IN  Let(Filter(pool, Keep), LAMBDA cand :
            IF cand = <<>> THEN [low |-> None, mid |-> None]
            ELSE Let(StableSort(cand, MidBefore), LAMBDA mid_sorted :
                     Pick(StableSort(cand, LowBefore)[1], mid_sorted)))

\* dialogue_3p2.py:359-365
_fmt_tv_line(tv) ==
    <<tv.brand, " ", tv.model, " | ", ToString(tv.size_inch), "cun | RMB",
      IF NotNone(_get_price(tv)) THEN ToString(Val(_get_price(tv))) ELSE "None",
      " | shoufa ">> \o DateText(tv.launch_date)

NO_TOP3_LINE == <<"no model to recommend for now">>            \* dialogue_3p2.py:469
NO_LOW_LINE == <<"beixuan1 | low price: none for now">>        \* dialogue_3p2.py:481
NO_MID_LINE == <<"beixuan2 | mid price: none for now">>        \* dialogue_3p2.py:486
TOP_ASKED == 300                                               \* dialogue_3p2.py:426

RECURSIVE NumberedLines(_, _)
NumberedLines(top3, n) ==
    IF n = 0 THEN <<>>
    ELSE NumberedLines(top3, n - 1) \o << <<ToString(n), ". ">> \o _fmt_tv_line(top3[n]) >>

\* dialogue_3p2.py:415-497: the picks and the text made of them
Dialogue3p2_run_3p2(rows, st) ==
    LET Text(top3, alt) ==
            << <<"[v] needs collected (4 questions done)">>,
               <<"- size: ", ToString(Val(st.size))>>,
               <<"- budget: ", ToString(Val(st.budget_max))>>,
               <<"- scene: ", Val(st.scene)>>,
               <<"- brand: ", st.brand_mode>> \o st.brand_list,
               <<>>, <<"Top3">>, <<"-----">> >>
            \o (IF top3 = <<>> THEN <<NO_TOP3_LINE>> ELSE NumberedLines(top3, Len(top3)))
            \o << <<>>, <<"+2 beixuan (not repeating Top3)">>, <<"-----">> >>
            \o (IF NotNone(alt.low)
                THEN << <<"beixuan1 | low price: ">> \o _fmt_tv_line(Val(alt.low)) >>
                ELSE <<NO_LOW_LINE>>)
            \o (IF NotNone(alt.mid)
                THEN << <<"beixuan2 | mid price: ">> \o _fmt_tv_line(Val(alt.mid)) >>
                ELSE <<NO_MID_LINE>>)
            \o << <<>>, <<"note: newest first, then higher price; brand mode ", st.brand_mode>> >>
        Picks(items) ==
            LET top3 == Take(items, TOP_N)
                used_models == {_model_of(top3[i]) : i \in 1..Len(top3)} \ {""}
            IN  Let(_pick_low_and_mid(items, used_models, Val(st.budget_max)), LAMBDA alt :
                    [top3 |-> top3, low_best |-> alt.low, mid_best |-> alt.mid,
                     reply |-> Text(top3, alt)])
    IN  Let(Tuple(tool_call(rows, Val(st.size), Val(st.scene), _brand_for_tool(st),
                            st.budget_max, YEAR_PREFER, TOP_ASKED)), LAMBDA ranked :
        Let(_sort_recent_then_price(
                _apply_budget_and_price_filter(
                    _apply_brand_exclude(ranked, st), Val(st.budget_max))), Picks))

CLI_HINT == T1("enter in order: 75 / 13k / ps5 / zhiyao tcl")        \* dialogue_3p2.py:254
CLI_RESET_REPLY == T1("[v] reset. Q1/4: what size?")                 \* dialogue_3p2.py:258
CLI_BYE == T1("bye")                                                 \* dialogue_3p2.py:261
CLI_Q ==
    [size |-> T1("Q1/4: what size?"), budget |-> T1("Q2/4: budget ceiling?"),
     scene |-> T1("Q3/4: main scene?"), brand |-> T1("Q4/4: brand attitude?")]

ChatOut(reply, st, done, kind, result) ==
    [reply |-> reply, state |-> st, done |-> done, kind |-> kind, result |-> result]

\* chat that asks for the budget before the size
chat_BudgetFirst(text, state_dict, rows) ==
    Let(_load_state(state_dict), LAMBDA st :
    Let(_safe_size(text), LAMBDA size :
    Let(_safe_int_from_text(text), LAMBDA budget :
    Let(_norm_scene(text), LAMBDA scene :
    Let(_parse_brand_attitude(text), LAMBDA att :
    LET st4 == [st EXCEPT !.brand_mode = Val(att.mode), !.brand_list = att.brands,
                          !.brand_asked = TRUE]
    IN  IF text = <<>> THEN ChatOut(CLI_HINT, st, FALSE, "hint", None)
        ELSE IF text = <<W_RESET_EN>>
             THEN ChatOut(CLI_RESET_REPLY, reset_state, FALSE, "reset", None)
        ELSE IF text = <<W_EXIT>> THEN ChatOut(CLI_BYE, st, TRUE, "exit", None)
        ELSE IF IsNone(st.budget_max)
             THEN IF IsNone(budget) \/ Val(budget) <= 0
                  THEN ChatOut(CLI_Q.budget, st, FALSE, "question", None)
                  ELSE ChatOut(CLI_Q.scene, [st EXCEPT !.budget_max = budget], FALSE,
                               "question", None)
        ELSE IF IsNone(st.size)
             THEN IF IsNone(size) THEN ChatOut(CLI_Q.size, st, FALSE, "question", None)
                  ELSE ChatOut(CLI_Q.budget, [st EXCEPT !.size = size], FALSE, "question", None)
        ELSE IF IsNone(st.scene)
             THEN IF IsNone(scene) THEN ChatOut(CLI_Q.scene, st, FALSE, "question", None)
                  ELSE ChatOut(CLI_Q.brand, [st EXCEPT !.scene = scene], FALSE, "question", None)
        ELSE IF ~st.brand_asked
             THEN IF IsNone(att.mode) THEN ChatOut(CLI_Q.brand, st, FALSE, "question", None)
                  ELSE Let(Dialogue3p2_run_3p2(rows, st4), LAMBDA r :
                           ChatOut(r.reply, st4, TRUE, "done",
                                   Some([top3 |-> r.top3, low_best |-> r.low_best,
                                         mid_best |-> r.mid_best])))
        ELSE Let(Dialogue3p2_run_3p2(rows, st), LAMBDA r :
                 ChatOut(r.reply, st, TRUE, "repeat",
                         Some([top3 |-> r.top3, low_best |-> r.low_best,
                               mid_best |-> r.mid_best]))))))))

\* dialogue_3p2.py:249-300; kind and result are history, not part of the dict
chat(text, state_dict, rows) ==
    Let(_load_state(state_dict), LAMBDA st :
    Let(_safe_size(text), LAMBDA size :
    Let(_safe_int_from_text(text), LAMBDA budget :
    Let(_norm_scene(text), LAMBDA scene :
    Let(_parse_brand_attitude(text), LAMBDA att :
    LET st4 == [st EXCEPT !.brand_mode = Val(att.mode), !.brand_list = att.brands,
                          !.brand_asked = TRUE]
    IN  IF text = <<>> THEN ChatOut(CLI_HINT, st, FALSE, "hint", None)
        ELSE IF text = <<W_RESET_EN>>
             THEN ChatOut(CLI_RESET_REPLY, reset_state, FALSE, "reset", None)
        ELSE IF text = <<W_EXIT>> THEN ChatOut(CLI_BYE, st, TRUE, "exit", None)
        ELSE IF IsNone(st.size)
             THEN IF IsNone(size) THEN ChatOut(CLI_Q.size, st, FALSE, "question", None)
                  ELSE ChatOut(CLI_Q.budget, [st EXCEPT !.size = size], FALSE, "question", None)
        ELSE IF IsNone(st.budget_max)
             THEN IF IsNone(budget) \/ Val(budget) <= 0
                  THEN ChatOut(CLI_Q.budget, st, FALSE, "question", None)
                  ELSE ChatOut(CLI_Q.scene, [st EXCEPT !.budget_max = budget], FALSE,
                               "question", None)
        ELSE IF IsNone(st.scene)
             THEN IF IsNone(scene) THEN ChatOut(CLI_Q.scene, st, FALSE, "question", None)
                  ELSE ChatOut(CLI_Q.brand, [st EXCEPT !.scene = scene], FALSE, "question", None)
        ELSE IF ~st.brand_asked
             THEN IF IsNone(att.mode) THEN ChatOut(CLI_Q.brand, st, FALSE, "question", None)
                  ELSE Let(Dialogue3p2_run_3p2(rows, st4), LAMBDA r :
                           ChatOut(r.reply, st4, TRUE, "done",
                                   Some([top3 |-> r.top3, low_best |-> r.low_best,
                                         mid_best |-> r.mid_best])))
        ELSE Let(Dialogue3p2_run_3p2(rows, st), LAMBDA r :
                 ChatOut(r.reply, st, TRUE, "repeat",
                         Some([top3 |-> r.top3, low_best |-> r.low_best,
                               mid_best |-> r.mid_best]))))))))

----------------------------------------------------------------------------
(* The web application as a state machine.  A request handler runs without *)
(* interleaving: api_dialog_3p2 awaits only the request body, before it    *)
(* touches _SESS (app.py:639), and the reset endpoint is one dict.pop.     *)

MaxDays == 1
TICKS == {_SESS_TTL_SEC, _SESS_TTL_SEC + 1}

\* how many entries _SESS can hold under session ids not followed here
OTHER_COUNTS == {0, SESS_GC_MIN - 1}

\* the texts sent to the web app: the four answers one by one, all four in one
\* text, a text that answers nothing, and the two commands
TEXTS ==
    { <<W_75>>, <<W_13K>>, <<W_PS5>>, <<W_ONLYTCL>>, <<W_HELLO>>,
      <<W_75, W_13K, W_PS5, W_ONLYTCL>>, <<W_MORE>>, <<W_RESET>> }

\* a `state` a request body can carry (DialogReq.state, app.py:602)
CLIENT_STATE ==
    [size |-> Some(75), budget |-> Some(13000), scene |-> None,
     brand |-> None, brand_any |-> FALSE]

\* the request bodies: every text without a state, two texts with one
REQUESTS ==
    {[text |-> t, state |-> None] : t \in TEXTS}
    \cup {[text |-> t, state |-> Some(CLIENT_STATE)] : t \in {<<W_HELLO>>, <<W_MORE>>}}

NoResp == DialogResp(TRUE, "", <<>>, EMPTY_STATE, FALSE, None, None, None)

\* history: the last request and what the handler did with it.  prev is the
\* kind of the request before it, fresh tells that the session had no entry in
\* _SESS when the request came, picks are the candidates the engine chose
NoObs ==
    [op |-> "none", sid |-> "", text |-> <<>>, client_state |-> FALSE, kind |-> "none",
     prev |-> "none", fresh |-> FALSE, calls |-> 0, picks |-> <<>>]

\* history: the result a completed round returned, and whether the session's
\* entry was removed by _gc_sessions since
RoundOf(r) == [reply_full |-> r.reply_full, reply_short |-> r.reply_short,
               structured |-> r.structured, evicted |-> FALSE]

Evicted(lr, dead) ==
    [s \in Sessions |-> IF s \in dead /\ NotNone(lr[s])
                        THEN Some([Val(lr[s]) EXCEPT !.evicted = TRUE]) ELSE lr[s]]

WebInit ==
    /\ _SESS = [s \in {} |-> NewPack(0)]
    /\ now = 0
    /\ resp = NoResp
    /\ obs = NoObs
    /\ lastRound = [s \in Sessions |-> None]

\* POST /api/dialog/3p2 while the store holds n_others other sessions
Dialog(sid, req, src_ok, n_others) ==
    \E dead \in {Dead(_SESS, n_others, now)} :
      /\ proc = "web"
      /\ n_others = 0 \/ dead # {}        \* the count matters only if it removes
      /\ \E S1 \in {_get_session(_SESS, n_others, now, sid)} :
         \E out \in {api_dialog_3p2(S1[sid], sid, req.text, req.state, db, TodayOf(now), src_ok)} :
         \E lr \in {Evicted(lastRound, dead)} :
        /\ src_ok \/ out.calls > 0          \* the source matters only if it is read
        /\ _SESS' = [S1 EXCEPT ![sid] = out.pack]
        /\ resp' = out.resp
        /\ obs' = [op |-> "dialog", sid |-> sid, text |-> req.text,
                   client_state |-> NotNone(req.state), kind |-> out.kind,
                   prev |-> obs.kind, fresh |-> sid \notin DOMAIN _SESS \ dead,
                   calls |-> out.calls, picks |-> out.picks]
        /\ lastRound' = IF out.kind = "done" THEN [lr EXCEPT ![sid] = Some(RoundOf(out.resp))]
                        ELSE IF out.kind = "reset" THEN [lr EXCEPT ![sid] = None]
                        ELSE lr
        /\ UNCHANGED <<now, db>>

\* POST /api/dialog/3p2/reset  (app.py:752-758)
api_dialog_3p2_reset(sid) ==
    /\ proc = "web"
    /\ _SESS' = [x \in DOMAIN _SESS \ {sid} |-> _SESS[x]]
    /\ resp' = DialogResp(TRUE, sid, <<>>, EMPTY_STATE, FALSE, None, None, None)
    /\ obs' = [NoObs EXCEPT !.op = "reset_ep", !.sid = sid, !.kind = "reset_ep",
                            !.prev = obs.kind, !.fresh = sid \notin DOMAIN _SESS]
    /\ lastRound' = [lastRound EXCEPT ![sid] = None]
    /\ UNCHANGED <<now, db>>

\* POST /api/dialog/3p2 with a body that is no DialogReq (app.py:637-648): the
\* handler answers before it touches the store
BadRequest ==
    /\ proc = "web"
    /\ resp' = DialogResp(FALSE, "", PARSE_FAILED, EMPTY_STATE, FALSE, None, None, None)
    /\ obs' = [NoObs EXCEPT !.op = "bad", !.kind = "bad", !.prev = obs.kind]
    /\ UNCHANGED <<_SESS, now, db, lastRound>>

\* a request under a session id not followed here: it runs _gc_sessions too
OtherRequest(n_others) ==
    /\ proc = "web"
    /\ Dead(_SESS, n_others, now) # {}
    /\ _SESS' = _gc_sessions(_SESS, n_others, now)
    /\ lastRound' = Evicted(lastRound, Dead(_SESS, n_others, now))
    /\ UNCHANGED <<now, db, resp, obs>>

Tick(d) ==
    /\ proc = "web"
    /\ now + d <= MaxDays * (_SESS_TTL_SEC + 1)
    /\ now' = now + d
    /\ UNCHANGED <<_SESS, db, resp, obs, lastRound>>

\* the scraper rewrites the candidate store
DbUpdate(rows) ==
    /\ rows # db
    /\ db' = rows
    /\ UNCHANGED <<proc, fnVars, raceVars, proxyVars, webVars, cliVars>>

CLI_TEXTS ==
    { <<>>, <<W_75>>, <<W_13K>>, <<W_PS5>>, <<W_ONLYTCL>>, <<W_NOTCL>>, <<W_ANY>>,
      <<W_HELLO>>, <<W_RESET_EN>>, <<W_EXIT>>, <<W_75, W_13K, W_PS5, W_ONLYTCL>> }

NoCliOut == [reply |-> <<>>, state |-> reset_state, done |-> FALSE]
NoCliObs == [text |-> <<>>, kind |-> "none", result |-> None, given |-> reset_state]

\* tv_dialog_3p2.py:21-32
CliInit ==
    /\ cli = [state |-> reset_state, pc |-> "input"]
    /\ cliOut = NoCliOut
    /\ cliObs = NoCliObs

\* tv_dialog_3p2.py:34-52, one turn of the loop on the line the user typed
CliTurn(text) ==
    /\ proc = "cli"
    /\ cli.pc = "input"
    /\ \E out \in {chat(text, Some(cli.state), db)} :
        /\ cli' = [state |-> out.state,
                   pc |-> IF out.done /\ text = <<W_EXIT>> THEN "exited" ELSE "input"]
        /\ cliOut' = [reply |-> out.reply, state |-> out.state, done |-> out.done]
        /\ cliObs' = [text |-> text, kind |-> out.kind, result |-> out.result,
                      given |-> cli.state]
    /\ UNCHANGED <<proc, fnVars, raceVars, proxyVars, db, webVars>>

\* tv_dialog_3p2.py:37-39, KeyboardInterrupt at the prompt
CliInterrupt ==
    /\ proc = "cli"
    /\ cli.pc = "input"
    /\ cli' = [cli EXCEPT !.pc = "exited"]
    /\ UNCHANGED <<proc, fnVars, raceVars, proxyVars, db, webVars, cliOut, cliObs>>

\* no function is called by itself in the web app and the CLI dialogue
\* no handler of the step-by-step model runs in the web app and the CLI dialogue
NoRc ==
    [init |-> <<>>, sess |-> <<>>, heap |-> <<>>, pc |-> <<>>, text |-> <<>>,
     pack |-> <<>>, state |-> <<>>, overlapped |-> FALSE]

\* clawdbot_dialog_proxy.py:98-102 and 247-257: the proxy after start-up; _LOCK
\* is free, _PENDING and _CACHE are empty, no request is being handled, the
\* cleanup daemon sleeps, no background job was submitted
NoPx ==
    [lock |-> "free", now |-> 0, cache |-> <<>>, pending |-> <<>>,
     h |-> [pc |-> "idle", key |-> "", text |-> <<>>, out |-> <<>>, reply |-> <<>>],
     c |-> "sleep", d |-> "idle", w |-> <<>>, served |-> 0]

NoFn ==
    [op |-> "none", rows |-> <<>>, budget |-> None, today |-> <<0, 0>>, used |-> {},
     arg |-> <<>>, ret |-> None]

Init ==
    /\ proc \in {"web", "cli"}
    /\ WebInit /\ CliInit /\ db = DB_FULL
    /\ fn = NoFn /\ rc = NoRc /\ px = NoPx

Next ==
    \/ \E sid \in Sessions, req \in REQUESTS, src_ok \in BOOLEAN, n \in OTHER_COUNTS :
          Dialog(sid, req, src_ok, n) /\ UNCHANGED <<proc, fnVars, raceVars, proxyVars, cliVars>>
    \/ \E sid \in Sessions : api_dialog_3p2_reset(sid) /\ UNCHANGED <<proc, fnVars, raceVars, proxyVars, cliVars>>
    \/ BadRequest /\ UNCHANGED <<proc, fnVars, raceVars, proxyVars, cliVars>>
    \/ \E n \in OTHER_COUNTS : OtherRequest(n) /\ UNCHANGED <<proc, fnVars, raceVars, proxyVars, cliVars>>
    \/ \E d \in TICKS : Tick(d) /\ UNCHANGED <<proc, fnVars, raceVars, proxyVars, cliVars>>
    \/ \E text \in CLI_TEXTS : CliTurn(text)
    \/ CliInterrupt
    \/ \E rows \in DBS : DbUpdate(rows)

Spec == Init /\ [][Next]_vars

----------------------------------------------------------------------------
(* What the claims speak of                                                *)

\* the candidates of the last CLI result: Top-3 and the alternates present
CliTop3 == IF NotNone(cliObs.result) THEN Val(cliObs.result).top3 ELSE <<>>
CliAlternates ==
    IF NotNone(cliObs.result)
    THEN Val(cliObs.result).low_best \o Val(cliObs.result).mid_best ELSE <<>>
CliProduced == cliObs.kind \in {"done", "repeat"}

PriceWithin(price, budget) ==
    NotNone(price) /\ 0 < Val(price) /\ NotNone(budget) /\ Val(price) <= Val(budget)

\* C1: every candidate in the Top-3 or in an alternate slot of a recommendation
\* has a known price p with 0 < p <= the budget ceiling, on the web path
\* (get_top3 / apply_filters) and on the Dialogue3p2 path
C1_PricesWithinBudget ==
    /\ obs.kind = "done" =>
          \A i \in 1..Len(obs.picks) :
              PriceWithin(obs.picks[i].street_rmb, resp.state.budget)
    /\ CliProduced =>
          \A tv \in Range(CliTop3) \cup Range(CliAlternates) :
              PriceWithin(tv.price_cny, cliOut.state.budget_max)

\* C2: Top-3 has at most 3 entries with pairwise distinct models, an alternate
\* present is not a model of Top-3, and two alternates present differ
C2_DistinctPicks ==
    CliProduced =>
        /\ Len(CliTop3) <= 3
        /\ \A i, j \in 1..Len(CliTop3) : i # j => CliTop3[i].model # CliTop3[j].model
        /\ \A a \in Range(CliAlternates), t \in Range(CliTop3) : a.model # t.model
        /\ Len(CliAlternates) = 2 => CliAlternates[1].model # CliAlternates[2].model

\* the fixed order of the four questions, as the claims state it
FirstUnfilled(st) ==
    IF IsNone(st.size) THEN "size"
    ELSE IF IsNone(st.budget) THEN "budget"
    ELSE IF IsNone(st.scene) THEN "scene"
    ELSE IF IsNone(st.brand) /\ ~st.brand_any THEN "brand"
    ELSE "none"

CliFirstUnfilled(st) ==
    IF IsNone(st.size) THEN "size"
    ELSE IF IsNone(st.budget_max) THEN "budget"
    ELSE IF IsNone(st.scene) THEN "scene"
    ELSE IF ~st.brand_asked THEN "brand"
    ELSE "none"

IsCommand(text) == IsShowMore(text) \/ parse_slots(text)._reset

\* the session's pack caches exactly the result that resp carries
CachesResp(pack) ==
    /\ pack.last_reply_full = resp.reply_full
    /\ pack.last_reply_short = resp.reply_short
    /\ pack.last_structured = resp.structured
    /\ pack.last_state = Some(resp.state)

FULL_TCL ==
    [size |-> Some(75), budget |-> Some(13000), scene |-> Some("ps5"),
     brand |-> Some("TCL"), brand_any |-> FALSE]

\* the four inputs "75", "13k", "ps5", "only tcl" sent one after the other to a
\* session without an entry, the store holding rows
FourInputs(rows) ==
    Let(api_dialog_3p2(NewPack(0), "t1", <<W_75>>, None, rows, START_MONTH, TRUE), LAMBDA o1 :
    Let(api_dialog_3p2(o1.pack, "t1", <<W_13K>>, None, rows, START_MONTH, TRUE), LAMBDA o2 :
    Let(api_dialog_3p2(o2.pack, "t1", <<W_PS5>>, None, rows, START_MONTH, TRUE), LAMBDA o3 :
    Let(api_dialog_3p2(o3.pack, "t1", <<W_ONLYTCL>>, None, rows, START_MONTH, TRUE), LAMBDA o4 :
        <<o1, o2, o3, o4>>))))

C3_WebRound ==
    /\ obs.kind = "done" =>
          /\ obs.calls = 1 /\ resp.done /\ resp.ok
          /\ FirstUnfilled(resp.state) = "none"
          /\ NotNone(resp.reply_full)
          /\ obs.sid \in DOMAIN _SESS =>
                CachesResp(_SESS[obs.sid]) /\ _SESS[obs.sid].state = EMPTY_STATE
    /\ obs.op = "dialog" /\ obs.prev = "done" /\ ~IsCommand(obs.text) /\ ~obs.client_state =>
          /\ resp.state = _merge_state(EMPTY_STATE, parse_slots(obs.text))
          /\ FirstUnfilled(resp.state) # "none" =>
                /\ ~resp.done /\ obs.calls = 0
                /\ resp.reply = QUESTION_TEXT_4Q[FirstUnfilled(resp.state)]
          /\ FirstUnfilled(resp.state) = "none" => obs.calls = 1 /\ (resp.done <=> resp.ok)
    /\ LET o == FourInputs(db)
       IN  /\ \A i \in 1..3 : ~o[i].resp.done /\ o[i].calls = 0 /\ IsNone(o[i].resp.reply_full)
           /\ o[4].resp.done /\ o[4].calls = 1 /\ NotNone(o[4].resp.reply_full)
           /\ o[4].resp.state = FULL_TCL
           /\ o[4].pack.state = EMPTY_STATE
           /\ o[4].pack.last_reply_full = o[4].resp.reply_full

C3_CliKeepsFullState ==
    /\ CliProduced => cliOut.done /\ CliFirstUnfilled(cliOut.state) = "none"
    /\ cliObs.kind = "repeat" => cliOut.state = cliObs.given
    /\ ( /\ cliObs.kind # "none"
         /\ CliFirstUnfilled(cliObs.given) = "none"
         /\ cliObs.text \notin {<<>>, <<W_RESET_EN>>, <<W_EXIT>>} ) => cliObs.kind = "repeat"

Answers(text, slot) ==
    LET sl == parse_slots(text)
    IN  CASE slot = "size" -> NotNone(sl.size)
          [] slot = "budget" -> NotNone(sl.budget)
          [] slot = "scene" -> NotNone(sl.scene)
          [] slot = "brand" -> NotNone(sl.brand) \/ sl.brand_any
          [] OTHER -> TRUE

CliAnswers(text, slot) ==
    CASE slot = "size" -> NotNone(_safe_size(text))
      [] slot = "budget" -> NotNone(_safe_int_from_text(text)) /\ Val(_safe_int_from_text(text)) > 0
      [] slot = "scene" -> NotNone(_norm_scene(text))
      [] slot = "brand" -> NotNone(_parse_brand_attitude(text).mode)
      [] OTHER -> TRUE

IsQuestionFor(reply, st) ==
    FirstUnfilled(st) # "none" /\ reply = QUESTION_TEXT_4Q[FirstUnfilled(st)]

CliIsQuestionFor(reply, st) ==
    CliFirstUnfilled(st) # "none" /\ reply = CLI_Q[CliFirstUnfilled(st)]

\* C4, as claimed: every done=false reply other than the reset acknowledgement
\* is the question of the first unfilled slot, and an input that does not
\* answer the question asked gets the same question again
C4_OnlyQuestionsWhenNotDone ==
    /\ [](/\ (obs.op = "dialog" /\ ~resp.done /\ resp.reply # RESET_REPLY)
                => IsQuestionFor(resp.reply, resp.state)
          /\ (cliObs.kind # "none" /\ ~cliOut.done /\ cliOut.reply # CLI_RESET_REPLY)
                => CliIsQuestionFor(cliOut.reply, cliOut.state))
    /\ [][(/\ obs'.op = "dialog" /\ obs'.prev = "question" /\ obs'.sid = obs.sid
           /\ ~IsCommand(obs'.text)
           /\ ~Answers(obs'.text, FirstUnfilled(resp.state)))
              => resp'.reply = resp.reply /\ ~resp'.done]_vars

\* C4, amended: a done=false reply is the question of the first unfilled slot
\* unless it is the reset acknowledgement, the "nothing to show" reply, the
\* engine-failure reply, the reply to a request body that cannot be parsed or
\* (CLI) the hint for an empty line; an input that does
\* not answer the question asked gets the same question again, provided the
\* session's entry is still in the store and the request carries no state
C4_QuestionOfFirstUnfilledSlot ==
    /\ [](/\ (obs.op = "dialog" /\ ~resp.done) =>
                \/ IsQuestionFor(resp.reply, resp.state) /\ obs.kind = "question"
                \/ resp.reply = RESET_REPLY /\ parse_slots(obs.text)._reset
                \/ resp.reply = NOTHING_TO_SHOW /\ IsShowMore(obs.text)
                \/ resp.reply = GENERATE_FAILED /\ ~resp.ok /\ obs.calls = 1
          /\ obs.kind = "question" => ~resp.done /\ IsQuestionFor(resp.reply, resp.state)
          /\ obs.op = "bad" => ~resp.done /\ ~resp.ok /\ resp.reply = PARSE_FAILED
          /\ (cliObs.kind # "none" /\ ~cliOut.done) =>
                \/ CliIsQuestionFor(cliOut.reply, cliOut.state) /\ cliObs.kind = "question"
                \/ cliOut.reply = CLI_RESET_REPLY /\ cliObs.text = <<W_RESET_EN>>
                \/ cliOut.reply = CLI_HINT /\ cliObs.text = <<>>
          /\ cliObs.kind = "question" =>
                ~cliOut.done /\ CliIsQuestionFor(cliOut.reply, cliOut.state))
    /\ [][(/\ obs'.op = "dialog" /\ obs'.prev = "question" /\ obs'.sid = obs.sid
           /\ ~obs'.fresh /\ ~obs'.client_state
           /\ ~IsCommand(obs'.text)
           /\ ~Answers(obs'.text, FirstUnfilled(resp.state)))
              => resp'.reply = resp.reply /\ ~resp'.done /\ obs'.kind = "question"]_vars
    /\ [][(/\ cliObs'.kind # "none" /\ cliObs.kind = "question"
           /\ cliObs'.text \notin {<<>>, <<W_RESET_EN>>, <<W_EXIT>>}
           /\ ~CliAnswers(cliObs'.text, CliFirstUnfilled(cliOut.state)))
              => cliOut'.reply = cliOut.reply /\ ~cliOut'.done]_vars

\* the budget question was asked, "hello" came, the budget question came again
C4_Witness ==
    /\ obs.op = "dialog" /\ obs.prev = "question" /\ obs.kind = "question"
    /\ obs.text = <<W_HELLO>> /\ ~obs.fresh /\ ~obs.client_state
    /\ resp.reply = QUESTION_TEXT_4Q.budget

\* the reply replays the round r
Replays(r) ==
    /\ resp.done
    /\ resp.reply_full = r.reply_full
    /\ resp.reply = Val(r.reply_full)
    /\ resp.reply_short = r.reply_short
    /\ resp.structured = r.structured
    /\ obs.calls = 0

\* C5, as claimed: after a completed round every "show more" command before
\* the next round or reset replays that round, without running the engine
C5_ShowMoreReplays ==
    (obs.op = "dialog" /\ IsShowMore(obs.text) /\ NotNone(lastRound[obs.sid]))
        => Replays(Val(lastRound[obs.sid]))

\* C5, amended: ... provided the session's entry has not been removed from the
\* store as expired (idle longer than the TTL while the store holds 2000
\* entries or more) since that round
C5_ShowMoreReplaysUnlessExpired ==
    ( /\ obs.op = "dialog" /\ IsShowMore(obs.text)
      /\ NotNone(lastRound[obs.sid])
      /\ ~Val(lastRound[obs.sid]).evicted )
        => Replays(Val(lastRound[obs.sid]))

\* "show more" twice in a row after a round, the store rewritten since
C5_Witness ==
    /\ obs.kind = "more_hit" /\ obs.prev = "more_hit"
    /\ NotNone(lastRound[obs.sid]) /\ ~Val(lastRound[obs.sid]).evicted
    /\ db = DB_DEAR
    /\ NotNone(resp.structured) /\ Len(Val(resp.structured).top3) > 0

\* C6: a "show more" command that follows a reset (the reset text or the reset
\* endpoint) directly gets the "nothing to show" reply with done=false
C6_NothingToShowAfterReset ==
    (obs.op = "dialog" /\ IsShowMore(obs.text) /\ obs.prev \in {"reset", "reset_ep"})
        => /\ resp.reply = NOTHING_TO_SHOW
           /\ ~resp.done
           /\ IsNone(resp.reply_full) /\ IsNone(resp.reply_short) /\ IsNone(resp.structured)
           /\ obs.calls = 0

\* a round was completed in this session, then reset, then "show more"
C6_Witness ==
    /\ obs.op = "dialog" /\ IsShowMore(obs.text) /\ obs.prev = "reset" /\ ~obs.fresh
    /\ IsNone(_SESS[obs.sid].last_reply_full)
    /\ resp.reply = NOTHING_TO_SHOW

\* C7: the reset command returns done=false, the acknowledgement followed by
\* the size question, the empty state and no result fields; the stored state
\* is empty afterwards (on the CLI path: the reset reply and the reset state)
C7_ResetFromAnyState ==
    /\ (obs.op = "dialog" /\ ~IsShowMore(obs.text) /\ parse_slots(obs.text)._reset) =>
          /\ ~resp.done /\ resp.ok
          /\ resp.reply = << <<RESET_PREFIX>> \o QUESTION_TEXT_4Q.size[1] >>
          /\ resp.state = EMPTY_STATE
          /\ IsNone(resp.reply_short) /\ IsNone(resp.reply_full) /\ IsNone(resp.structured)
          /\ obs.sid \in DOMAIN _SESS =>
                /\ _SESS[obs.sid].state = EMPTY_STATE
                /\ IsNone(_SESS[obs.sid].last_reply_full)
    /\ (cliObs.kind # "none" /\ cliObs.text = <<W_RESET_EN>>) =>
          ~cliOut.done /\ cliOut.reply = CLI_RESET_REPLY /\ cliOut.state = reset_state

\* the reset came right after a completed round, whose result was cached
C7_Witness ==
    /\ obs.kind = "reset" /\ obs.prev = "done" /\ ~obs.fresh
    /\ resp.state = EMPTY_STATE

\* C8, as claimed: done=true exactly when this request produced a result, and
\* every done=false reply is the question of the currently missing slot
C8_DoneIffProduced ==
    /\ obs.op = "dialog" =>
          /\ resp.done <=> (obs.calls = 1 /\ resp.ok)
          /\ ~resp.done => IsQuestionFor(resp.reply, resp.state)
    /\ cliObs.kind # "none" =>
          /\ cliOut.done <=> NotNone(cliObs.result)
          /\ ~cliOut.done => CliIsQuestionFor(cliOut.reply, cliOut.state)

\* C8, amended: done=true exactly when this request produced a result or
\* replayed the cached one for a "show more" command (and, on the CLI path, for
\* "exit", answered "bye"); a done=false reply is the question of the first
\* missing slot, the reset acknowledgement with the size question, the "nothing
\* to show" reply, the engine-failure reply with ok=false, the reply with
\* ok=false to a request body that cannot be parsed, or (CLI) the hint for an
\* empty line
C8_DoneIffProducedOrReplayed ==
    /\ obs.op = "dialog" =>
          /\ resp.done <=> \/ obs.calls = 1 /\ resp.ok
                           \/ IsShowMore(obs.text) /\ obs.calls = 0 /\ Truthy(resp.reply_full)
          /\ obs.calls = 1 /\ resp.ok =>
                NotNone(resp.reply_full) /\ FirstUnfilled(resp.state) = "none"
          /\ resp.done /\ IsShowMore(obs.text) => resp.reply = Val(resp.reply_full)
          /\ ~resp.done =>
                /\ IsNone(resp.reply_full) /\ IsNone(resp.structured)
                /\ \/ IsQuestionFor(resp.reply, resp.state) /\ resp.ok
                   \/ resp.reply = RESET_REPLY /\ parse_slots(obs.text)._reset
                   \/ resp.reply = NOTHING_TO_SHOW /\ IsShowMore(obs.text)
                   \/ resp.reply = GENERATE_FAILED /\ ~resp.ok /\ obs.calls = 1
    /\ obs.op = "bad" => ~resp.done /\ ~resp.ok /\ resp.reply = PARSE_FAILED
    /\ cliObs.kind # "none" =>
          /\ cliOut.done <=> NotNone(cliObs.result) \/ cliObs.text = <<W_EXIT>>
          /\ cliObs.text = <<W_EXIT>> => cliOut.reply = CLI_BYE /\ IsNone(cliObs.result)
          /\ ~cliOut.done =>
                \/ CliIsQuestionFor(cliOut.reply, cliOut.state)
                \/ cliOut.reply = CLI_RESET_REPLY /\ cliObs.text = <<W_RESET_EN>>
                \/ cliOut.reply = CLI_HINT /\ cliObs.text = <<>>

\* the engine failed on a complete state: done=false, and no question
C8_Witness ==
    /\ obs.op = "dialog" /\ obs.calls = 1 /\ ~resp.ok /\ ~resp.done
    /\ FirstUnfilled(resp.state) = "none"
    /\ resp.reply = GENERATE_FAILED

\* C9: when no candidate survives the filters the round's reply says so: on the
\* web path the not-found line, never the "recommendation generated" notice, and
\* an empty Top-3; on the CLI path the three "none" lines
C9_EmptyPoolReported ==
    /\ (obs.kind = "done" /\ obs.picks = <<>>) =>
          /\ resp.reply # GENERATED_NOTICE
          /\ NOT_FOUND_LINE \in Range(resp.reply)
          /\ Val(resp.structured).top3 = <<>>
    /\ (CliProduced /\ CliTop3 = <<>>) =>
          /\ CliAlternates = <<>>
          /\ {NO_TOP3_LINE, NO_LOW_LINE, NO_MID_LINE} \subseteq Range(cliOut.reply)

\* the state the store S holds for sid
StoredIn(S, sid) == IF sid \in DOMAIN S THEN S[sid].state ELSE EMPTY_STATE

CachedIn(S, sid) ==
    IF sid \in DOMAIN S
    THEN <<S[sid].last_reply_full, S[sid].last_reply_short, S[sid].last_structured>>
    ELSE <<None, None, None>>

\* C10: a request during which the candidate source fails is answered with a
\* failure (ok=false, done=false), runs the engine once, and leaves the cached
\* result and the stored state as they were before the request
C10_FailureLeavesStateUnchanged ==
    [][(obs'.kind = "failed" /\ (obs' # obs \/ resp' # resp) /\ ~obs'.client_state) =>
          /\ ~resp'.ok /\ ~resp'.done /\ obs'.calls = 1
          /\ CachedIn(_SESS', obs'.sid) = CachedIn(_SESS, obs'.sid)
          /\ StoredIn(_SESS', obs'.sid) = StoredIn(_SESS, obs'.sid)]_vars

\* C11: a request for a session whose entry is older than the TTL is handled
\* like one for a session never seen: it starts from the empty state and finds
\* no cached result, however many sessions the store holds
C11_ExpiredIsFresh ==
    [][( /\ obs'.op = "dialog" /\ ~obs'.client_state
         /\ obs'.sid \in DOMAIN _SESS /\ obs'.sid \in DOMAIN _SESS'
         /\ now - _SESS[obs'.sid]._ts > _SESS_TTL_SEC
         /\ _SESS'[obs'.sid]._ts = now )
          => IF IsShowMore(obs'.text)
             THEN resp'.reply = NOTHING_TO_SHOW /\ ~resp'.done
             ELSE resp'.state = _merge_state(EMPTY_STATE, parse_slots(obs'.text))]_vars

----------------------------------------------------------------------------
(* The ranking functions called by themselves: the arguments are drawn at  *)
(* the start, one step makes the call.                                     *)

MaxRows == 3

\* the rows a candidate list is made of: 75-inch rows of the store
FN_POOL == {R_Q10K, R_T7K, R_V8, R_Q9, R_OLD, R_U7, R_N5}

\* the lists of at most n different rows
RowLists(n) ==
    UNION {{r \in [1..k -> FN_POOL] : \A i, j \in 1..k : i # j => r[i] # r[j]} : k \in 0..n}

FN_BUDGETS == {None, Some(13000)}

\* the months datetime.now() falls in when the call is made
FN_TODAYS == {<<2026, 6>>, START_MONTH}

\* the pools, Top-3 models and budgets _pick_low_and_mid is called with
PoolItem(tv) ==
    [rank |-> 1, brand |-> tv.brand, model |-> tv.model, size_inch |-> tv.size_inch,
     price_cny |-> tv.street_rmb, launch_date |-> tv.launch_date]

PICK_POOL == {PoolItem(tv) : tv \in {R_S55, R_A38, R_B38, R_A39, R_T7K}}
PICK_USED == {{}, {"S55"}}
PICK_BUDGETS == {5500, 13000}

PickLists(n) ==
    UNION {{r \in [1..k -> PICK_POOL] : \A i, j \in 1..k : i # j => r[i] # r[j]} : k \in 0..n}

\* the candidates and profiles the scoring loop of get_top3 runs over; Q9 and
\* C12 have no input lag, C12 has no VRR value either
PART_POOL == {R_Q10K, R_T7K, R_Q9, R_C12}
PART_PROFILES ==
    {[weights |-> [input_lag_ms_60hz |-> <<2, 5>>, peak_brightness_nits |-> <<2, 5>>,
                   vrr |-> <<1, 5>>],
      negative_metrics |-> neg, boolean_metrics |-> {"vrr"}, penalties |-> <<>>] :
         neg \in {{}, {"input_lag_ms_60hz"}}}

PartLists(n) ==
    UNION {{r \in [1..k -> PART_POOL] : \A i, j \in 1..k : i # j => r[i] # r[j]} : k \in 0..n}

\* run_reco.py:336-357: _parts of every candidate
score_parts(cands, prof) ==
    LET normalized == Tuple([i \in 1..Len(cands) |-> BoolNormalized(cands[i], prof)])
    IN  [i \in 1..Len(cands) |->
            [k \in DOMAIN prof.weights |-> Part(normalized[i], normalized, prof, k)]]

\* the store rows and the answers to the brand question chat is called with,
\* size, budget and scene being filled
CHAT_POOL == {R_LG, R_Q10K, R_T7K, R_E8S}
CHAT_TEXTS == {<<W_NOTCL>>, <<W_NOLG>>, <<W_ONLYTCL>>, <<W_ANY>>}
CHAT_STATE ==
    [reset_state EXCEPT !.size = Some(75), !.budget_max = Some(13000), !.scene = Some("ps5")]

ChatLists(n) ==
    UNION {{r \in [1..k -> CHAT_POOL] : \A i, j \in 1..k : i # j => r[i] # r[j]} : k \in 0..n}

\* the first texts of a web session
SLOT_TEXTS == {<<W_NOTCL>>, <<W_NOLG>>, <<W_ONLYTCL>>, <<W_75, W_NOTCL>>, <<W_75>>, <<W_ANY>>}

FnCall(op, rows, budget, today) ==
    [op |-> op, rows |-> rows, budget |-> budget, today |-> today, used |-> {},
     arg |-> <<>>, ret |-> None]

FN_CALLS ==
    {FnCall("get_top3", r, b, t) : r \in RowLists(MaxRows), b \in FN_BUDGETS, t \in FN_TODAYS}
    \cup {FnCall("tool_call", r, b, START_MONTH) : r \in RowLists(MaxRows), b \in FN_BUDGETS}
    \cup {[FnCall("_pick_low_and_mid", r, Some(b), START_MONTH) EXCEPT !.used = u] :
             r \in PickLists(MaxRows), b \in PICK_BUDGETS, u \in PICK_USED}
    \cup {[FnCall("rank_twice", r, b, t) EXCEPT !.arg = <<u>>] :
             r \in RowLists(MaxRows), b \in FN_BUDGETS, t \in FN_TODAYS, u \in FN_TODAYS}
    \cup {[FnCall("chat", r, None, START_MONTH) EXCEPT !.arg = <<text>>] :
             r \in ChatLists(MaxRows), text \in CHAT_TEXTS}
    \cup {[FnCall("parse_slots", <<>>, None, START_MONTH) EXCEPT !.arg = <<text>>] :
             text \in SLOT_TEXTS}
    \cup {[FnCall("score_parts", r, None, START_MONTH) EXCEPT !.arg = <<prof>>] :
             r \in PartLists(MaxRows), prof \in PART_PROFILES}

FnInit ==
    /\ proc = "fn"
    /\ WebInit /\ CliInit /\ db = DB_FULL
    /\ fn \in FN_CALLS /\ rc = NoRc /\ px = NoPx

FnReturn(op, value) ==
    /\ proc = "fn"
    /\ fn.op = op
    /\ IsNone(fn.ret)
    /\ fn' = [fn EXCEPT !.ret = Some(value)]
    /\ UNCHANGED <<proc, db, webVars, cliVars, raceVars, proxyVars>>

\* run_reco.get_top3(75, "ps5", "TCL", budget) on the rows, in the month today
CallGetTop3 == FnReturn("get_top3", get_top3(fn.rows, 75, "ps5", Some("TCL"), fn.budget, fn.today))

\* tv_rank.tool_call({size: 75, scene: "ps5", brand: "TCL", budget_max, top: 50})
CallToolCall ==
    FnReturn("tool_call", tool_call(fn.rows, 75, "ps5", Some("TCL"), fn.budget, YEAR_PREFER, TOP_CAP))

\* Dialogue3p2._pick_low_and_mid(pool, used_models, budget_max)
CallPickLowAndMid ==
    FnReturn("_pick_low_and_mid", _pick_low_and_mid(fn.rows, fn.used, Val(fn.budget)))

\* the scoring loop of get_top3 on the candidates, with the profile
CallScoreParts == FnReturn("score_parts", score_parts(fn.rows, fn.arg[1]))

\* two invocations with the same arguments, one in the month fn.today and one
\* in the month fn.arg[1]; tv_rank reads no clock
CallRankTwice ==
    FnReturn("rank_twice",
             [first |-> get_top3(fn.rows, 75, "ps5", Some("TCL"), fn.budget, fn.today),
              second |-> get_top3(fn.rows, 75, "ps5", Some("TCL"), fn.budget, fn.arg[1]),
              tool_first |-> tool_call(fn.rows, 75, "ps5", Some("TCL"), fn.budget,
                                       YEAR_PREFER, TOP_CAP),
              tool_second |-> tool_call(fn.rows, 75, "ps5", Some("TCL"), fn.budget,
                                        YEAR_PREFER, TOP_CAP)])

\* Dialogue3p2.chat(text, state) with the three first slots filled
CallChat == FnReturn("chat", chat(fn.arg[1], Some(CHAT_STATE), fn.rows))

\* app.py:697-698: the state of a new session after its first text
CallParseSlots == FnReturn("parse_slots", _merge_state(EMPTY_STATE, parse_slots(fn.arg[1])))

FnNext ==
    \/ CallChat
    \/ CallParseSlots
    \/ CallRankTwice
    \/ CallScoreParts
    \/ CallGetTop3
    \/ CallToolCall
    \/ CallPickLowAndMid

FnSpec == FnInit /\ [][FnNext]_vars

\* the bucket of a launch year: the preferred year, another known year, unknown
Bucket3(year) == IF year = YEAR_PREFER THEN 0 ELSE IF year > 0 THEN 1 ELSE 2

Returned(op) == IF fn.op = op /\ NotNone(fn.ret) THEN Val(fn.ret) ELSE <<>>

\* C12: in the list a ranking returns no candidate of a higher-numbered bucket
\* (0 preferred year, 1 another known year, 2 unknown) precedes one of a
\* lower-numbered bucket; within a bucket get_top3 orders by score, descending,
\* then by launch period, descending
C12_OrderedByBucketScoreLaunch ==
    /\ LET top == Returned("get_top3")
       IN  \A i, j \in 1..Len(top) : i < j =>
             LET bi == Bucket3(launch_year_from_date(top[i].launch_date))
                 bj == Bucket3(launch_year_from_date(top[j].launch_date))
             IN  /\ bi <= bj
                 /\ bi = bj => ~QLt(top[i]._score, top[j]._score)
                 /\ (bi = bj /\ top[i]._score = top[j]._score) =>
                       date_rank(top[i].launch_date) >= date_rank(top[j].launch_date)
    /\ LET top == Returned("tool_call")
       IN  \A i, j \in 1..Len(top) : i < j =>
             /\ Bucket3(_launch_year(top[i].launch_date))
                   <= Bucket3(_launch_year(top[j].launch_date))
             /\ Bucket3(_launch_year(top[i].launch_date))
                   = Bucket3(_launch_year(top[j].launch_date))
                  => rank_launch_key(top[i].launch_date) >= rank_launch_key(top[j].launch_date)

\* the candidates _pick_low_and_mid chooses from: the rows of the pool with a
\* model outside Top-3 and a price in (0, budget]
Eligible ==
    {fn.rows[i] : i \in {k \in 1..Len(fn.rows) :
        /\ fn.rows[k].model \notin fn.used
        /\ NotNone(fn.rows[k].price_cny)
        /\ Val(fn.rows[k].price_cny) > 0
        /\ Val(fn.rows[k].price_cny) <= Val(fn.budget)}}

Picked == fn.op = "_pick_low_and_mid" /\ NotNone(fn.ret) /\ Eligible # {}

\* ten times |price - 0.70 * budget|, then newer launch period, then higher price
ExactMidKey(t) ==
    <<Abs(10 * Val(t.price_cny) - 7 * Val(fn.budget)), 0 - _launch_key(t.launch_date),
      0 - Val(t.price_cny)>>

BestMid(S) == {t \in S : \A u \in S : ~TupleLess(ExactMidKey(u), ExactMidKey(t))}

\* C13: the mid-price alternate minimizes |price - 0.70 * budget| (the exact
\* product) over the eligible pool, ties going to the newer launch period and
\* then the higher price; when the minimizer is the lowest-price alternate's
\* model, it is the best of the candidates of another model
C13_MidMinimizesExactDistance ==
    Picked =>
        LET low == Val(Val(fn.ret).low)
            mid == Val(Val(fn.ret).mid)
            others == {t \in Eligible : t.model # low.model}
        IN  IF \E t \in BestMid(Eligible) : t.model # low.model
            THEN mid \in BestMid(Eligible)
            ELSE others # {} => mid \in BestMid(others)

\* C14: the lowest-price alternate costs no more than any candidate of its
\* eligible pool, and no candidate of that lowest price has a newer launch period
C14_LowIsCheapestThenNewest ==
    Picked =>
        LET low == Val(Val(fn.ret).low)
        IN  /\ low \in Eligible
            /\ \A t \in Eligible :
                  /\ Val(low.price_cny) <= Val(t.price_cny)
                  /\ Val(t.price_cny) = Val(low.price_cny)
                       => _launch_key(low.launch_date) >= _launch_key(t.launch_date)

\* two candidates share the lowest price, the older one first in the pool
C14_Witness ==
    /\ Picked
    /\ \E i, j \in 1..Len(fn.rows) :
          /\ i < j
          /\ fn.rows[i] \in Eligible /\ fn.rows[j] \in Eligible
          /\ fn.rows[i].price_cny = fn.rows[j].price_cny
          /\ _launch_key(fn.rows[i].launch_date) < _launch_key(fn.rows[j].launch_date)
          /\ Val(Val(fn.ret).low) = fn.rows[j]

\* C15: a candidate without a value for a weighted metric gets the part 0 for
\* that metric, whether the metric is ordinary or inverted
C15_AbsentContributesZero ==
    (fn.op = "score_parts" /\ NotNone(fn.ret)) =>
        \A i \in 1..Len(fn.rows) : \A k \in DOMAIN fn.arg[1].weights :
            IsNone(fn.rows[i][k]) => Val(fn.ret)[i][k] = Q0

\* the models of a ranked list, in its order
Models(list) == [i \in 1..Len(list) |-> list[i].model]

\* the position of a model in the list the call was given
InputIndex(model) == CHOOSE i \in 1..Len(fn.rows) : fn.rows[i].model = model

\* C16: two invocations of the ranking with the same candidates and arguments
\* return the same ordered list whatever the time of each, and candidates with
\* equal sort keys stay in their input order
C16_SameListAtAnyTime ==
    (fn.op = "rank_twice" /\ NotNone(fn.ret)) =>
        LET r == Val(fn.ret)
        IN  /\ Models(r.first) = Models(r.second)
            /\ Models(r.tool_first) = Models(r.tool_second)
            /\ \A i, j \in 1..Len(r.first) :
                  ( /\ i < j
                    /\ ~RankedBefore(r.first[i], r.first[j])
                    /\ ~RankedBefore(r.first[j], r.first[i]) )
                      => InputIndex(r.first[i].model) < InputIndex(r.first[j].model)
            /\ \A i, j \in 1..Len(r.tool_first) :
                  ( /\ i < j
                    /\ r.tool_first[i].launch_date = r.tool_first[j].launch_date
                    /\ r.tool_first[i].price_cny = r.tool_first[j].price_cny )
                      => InputIndex(r.tool_first[i].model) < InputIndex(r.tool_first[j].model)

\* the text has an utterance that excludes a brand
Excludes(text) == \E i \in 1..Len(text) : text[i] \in {W_NOTCL, W_NOLG}

\* C17: with the stance exclude {b1, ...} no Top-3 candidate and no alternate has
\* an excluded brand, compared without regard to case, whatever the brand; and
\* an utterance that excludes a brand never leaves the session restricted to it
C17_ExcludedBrandsNeverPicked ==
    /\ (fn.op = "chat" /\ NotNone(fn.ret) /\ Val(fn.ret).kind = "done"
           /\ Val(fn.ret).state.brand_mode = "exclude") =>
          LET r == Val(Val(fn.ret).result)
              ex == {Lower(b) : b \in Range(Val(fn.ret).state.brand_list)}
              picks == Range(r.top3) \cup Range(r.low_best) \cup Range(r.mid_best)
          IN  \A t \in picks : Lower(t.brand) \notin ex
    /\ (fn.op = "parse_slots" /\ NotNone(fn.ret) /\ Excludes(fn.arg[1])) =>
          IsNone(Val(fn.ret).brand)

\* the reply the request of a step would get from a store that holds no session
\* but its own
ReplyAlone ==
    api_dialog_3p2(_get_session(_SESS, 0, now, obs'.sid)[obs'.sid], obs'.sid, obs'.text,
                   IF obs'.client_state THEN Some(CLIENT_STATE) ELSE None,
                   db, TodayOf(now), obs'.kind # "failed").resp

----------------------------------------------------------------------------
(* web/app.py, the requests of one session id statement by statement.      *)
(* api_dialog_3p2 is a coroutine with no await after the request body is   *)
(* read (app.py:639), so the event loop runs one dialog handler at a time; *)
(* api_dialog_3p2_reset is a plain def, which FastAPI runs in a worker     *)
(* thread: its _SESS.pop can fall between any two statements of a dialog   *)
(* handler.  _SESS holds references: rc.sess maps the session id to a pack *)
(* object of rc.heap.                                                      *)

RACE_SID == "t1"
DIALOGS == {"d1", "d2"}
RACE_REQUESTS == DIALOGS \cup {"r"}
RACE_TEXTS == {<<W_75>>, <<W_13K>>, <<W_PS5>>, <<W_MORE>>, <<W_RESET>>}

\* the requests that overlap: two dialog requests, a dialog request and a
\* reset, or all three
RACE_SETS == {{"d1", "d2"}, {"d1", "r"}, {"d1", "d2", "r"}}

\* the pack of the session when the requests arrive: none, one with the size
\* answered, one with a completed round in its cache
RACE_PACKS ==
    {None,
     Some(api_dialog_3p2(NewPack(0), RACE_SID, <<W_75>>, None, DB_FULL, START_MONTH,
                         TRUE).pack),
     Some(api_dialog_3p2(NewPack(0), RACE_SID, <<W_75, W_13K, W_PS5, W_ONLYTCL>>, None,
                         DB_FULL, START_MONTH, TRUE).pack)}

RACE_INITS ==
    {[init |-> IF IsNone(p) THEN <<>> ELSE [s \in {RACE_SID} |-> Val(p)],
      sess |-> IF IsNone(p) THEN <<>> ELSE [s \in {RACE_SID} |-> "p0"],
      heap |-> IF IsNone(p) THEN <<>> ELSE [h \in {"p0"} |-> Val(p)],
      pc |-> [q \in RACE_REQUESTS |-> IF q \in reqs THEN "wait" ELSE "none"],
      text |-> [d \in DIALOGS |-> IF d = "d1" THEN a ELSE b],
      pack |-> [d \in DIALOGS |-> None],
      state |-> [d \in DIALOGS |-> None],
      overlapped |-> FALSE] :
        p \in RACE_PACKS, a \in RACE_TEXTS, b \in RACE_TEXTS, reqs \in RACE_SETS}

RaceInit ==
    /\ proc = "race"
    /\ WebInit /\ CliInit /\ db = DB_FULL
    /\ fn = NoFn /\ rc \in RACE_INITS /\ px = NoPx

\* dialog handlers run as threads: any of them may run at any time
LoopIdle_Threads(d) == TRUE

\* the event loop runs handler d only when no other dialog handler is between
\* its first and its last statement
LoopIdle(d) == \A e \in DIALOGS \ {d} : rc.pc[e] \in {"wait", "done", "none"}

Running(d) == rc.pc[d] \in {"got", "read", "write"}

\* app.py:475-477: _gc_sessions returns at once (fewer than 2000 entries), then
\* pack = _SESS.get(sid)
D_Get(d) ==
    /\ rc.pc[d] = "wait"
    /\ LoopIdle(d)
    /\ rc' = [rc EXCEPT !.pc[d] = "got",
                        !.pack[d] = IF RACE_SID \in DOMAIN rc.sess
                                    THEN Some(rc.sess[RACE_SID]) ELSE None]

\* app.py:478-488: a new pack is stored if none was found; the pack is touched
D_Store(d) ==
    /\ rc.pc[d] = "got"
    /\ IF IsNone(rc.pack[d])
       THEN rc' = [rc EXCEPT !.pc[d] = "read",
                            !.pack[d] = Some(d),
                            !.heap = (d :> NewPack(now)) @@ rc.heap,
                            !.sess = [s \in {RACE_SID} |-> d]]
       ELSE rc' = [rc EXCEPT !.pc[d] = "read",
                            !.heap[Val(rc.pack[d])]._ts = now]

\* app.py:651-654: no state in the request; state = _normalize_state(pack["state"])
D_Read(d) ==
    /\ rc.pc[d] = "read"
    /\ rc' = [rc EXCEPT !.pc[d] = "write",
                        !.state[d] = Some(_normalize_state(
                                              Some(rc.heap[Val(rc.pack[d])].state)))]

\* app.py:655-749: the rest of the handler, on the state it read, writing to
\* the pack it holds
D_Write(d) ==
    /\ rc.pc[d] = "write"
    /\ \E out \in {api_dialog_3p2([rc.heap[Val(rc.pack[d])] EXCEPT !.state = Val(rc.state[d])],
                                   RACE_SID, rc.text[d], None, db, TodayOf(now), TRUE)} :
          rc' = [rc EXCEPT !.pc[d] = "done", !.heap[Val(rc.pack[d])] = out.pack]

\* app.py:753-758: _SESS.pop(sid, None)
R_Pop ==
    /\ rc.pc.r = "wait"
    /\ rc' = [rc EXCEPT !.pc.r = "done",
                        !.sess = [s \in DOMAIN rc.sess \ {RACE_SID} |-> rc.sess[s]],
                        !.overlapped = \E d \in DIALOGS : Running(d)]

RaceNext ==
    /\ proc = "race"
    /\ \/ \E d \in DIALOGS : D_Get(d)
       \/ \E d \in DIALOGS : D_Store(d)
       \/ \E d \in DIALOGS : D_Read(d)
       \/ \E d \in DIALOGS : D_Write(d)
       \/ R_Pop
    /\ UNCHANGED <<proc, db, webVars, cliVars, fnVars, proxyVars>>

RaceSpec == RaceInit /\ [][RaceNext]_vars

\* one request run alone on a store of packs
SeqApply(S, q) ==
    IF q = "r" THEN [x \in DOMAIN S \ {RACE_SID} |-> S[x]]
    ELSE LET S1 == _get_session(S, 0, now, RACE_SID)
         IN  [S1 EXCEPT ![RACE_SID] =
                 api_dialog_3p2(S1[RACE_SID], RACE_SID, rc.text[q], None, db, TodayOf(now),
                                TRUE).pack]

\* the first n requests of the order o run one after the other
RECURSIVE SeqRun(_, _)
SeqRun(o, n) == IF n = 0 THEN rc.init ELSE SeqApply(SeqRun(o, n - 1), o[n])

\* the requests that were made
Made == {q \in RACE_REQUESTS : rc.pc[q] # "none"}

\* the stores the requests leave when run one after the other, in any order
SequentialOutcomes ==
    {SeqRun(o, Cardinality(Made)) :
        o \in {f \in [1..Cardinality(Made) -> Made] :
                  \A i, j \in 1..Cardinality(Made) : i # j => f[i] # f[j]}}

\* the store the handlers left: what _SESS refers to
Stored == [s \in DOMAIN rc.sess |-> rc.heap[rc.sess[s]]]

AllDone == \A q \in Made : rc.pc[q] = "done"

\* C18: overlapping requests for one session id (two dialog requests and a call
\* of the reset endpoint) lose no update: once all have returned, the stored
\* state and cached result are those of some order of the requests run one
\* after the other
C18_NoLostUpdate == (proc = "race" /\ AllDone) => Stored \in SequentialOutcomes

\* the reset endpoint popped the session between two statements of a dialog
\* handler, and the requests left a session behind
C18_Witness ==
    /\ proc = "race" /\ AllDone
    /\ rc.overlapped
    /\ RACE_SID \in DOMAIN rc.sess
    /\ Stored[RACE_SID].state # EMPTY_STATE

----------------------------------------------------------------------------
(* clawdbot_dialog_proxy.py.  webhook is a coroutine that calls            *)
(* handle_user_text directly, so the event loop thread "H" handles one     *)
(* request at a time; the cleanup daemon "C" and the background jobs (one  *)
(* per key, named by the key) are threads of their own.  _LOCK is a        *)
(* threading.Lock: acquire waits until the lock is free, whoever holds it. *)

MaxRequests == 3

PX_KEYS == {"u1::s1", "u2::s1"}
PX_NOWS == {0, 400, 800}

\* clawdbot_dialog_proxy.py:71-74, glosses of the keywords
POLL_KEYWORDS ==
    {"jixu", "jieguo", "wanchenglema", "haolemei", "chulema", "done", "status", "continue"}

W_JIXU == "jixu"
PX_TEXTS == {<<W_JIXU>>, <<"chu", "jieguo", "lema">>, <<W_75, W_13K, W_PS5>>}

\* answers of the TV service: with a reply, with a short reply only
PX_PAYLOADS ==
    {[reply |-> Some("full"), reply_short |-> Some("short")],
     [reply |-> None, reply_short |-> Some("short")]}

\* _call_tv_service: an answer, a timeout or connection error, another error
PX_OUTCOMES == {"ok", "timeout", "error"}

WAITING_TEXT == "zhengzai-shengcheng"
NOTHING_YET == "hai-meiyou-jieguo"
BUSY_TEXT == "fuwu-fanmang"

\* clawdbot_dialog_proxy.py:185-193
_is_poll(text) == \E i \in 1..Len(text) : text[i] \in POLL_KEYWORDS

\* clawdbot_dialog_proxy.py:206 and 216
ReplyOf(out) ==
    IF ~IsNone(out.reply) THEN Val(out.reply)
    ELSE IF ~IsNone(out.reply_short) THEN Val(out.reply_short)
    ELSE "json"

\* "D" is the worker thread that serves GET /debug/state (a plain def)
PX_THREADS == {"H", "C", "D"} \cup PX_KEYS

PcOf(t) ==
    IF t = "H" THEN px.h.pc
    ELSE IF t = "C" THEN px.c
    ELSE IF t = "D" THEN px.d
    ELSE IF t \in DOMAIN px.w THEN px.w[t].pc ELSE "none"

SetPc(p, t, pc) ==
    IF t = "H" THEN [p EXCEPT !.h.pc = pc]
    ELSE IF t = "C" THEN [p EXCEPT !.c = pc]
    ELSE IF t = "D" THEN [p EXCEPT !.d = pc]
    ELSE [p EXCEPT !.w[t].pc = pc]

\* the statements "with _LOCK:" and where each leads once the lock is taken
AfterAcquire ==
    [poll |-> "poll_cleanup",           \* line 176, then _cleanup() at 177
     poll_cleanup |-> "poll_look",      \* line 118 inside 176
     store |-> "store_in",              \* line 218
     bg |-> "bg_cleanup",               \* line 166, then _cleanup() at 167
     bg_cleanup |-> "bg_submit",        \* line 118 inside 166
     clean |-> "clean_in",              \* line 118, called by the daemon
     dbg |-> "dbg_cleanup",             \* line 270, then _cleanup() at 271
     dbg_cleanup |-> "dbg_count",       \* line 118 inside 270
     wstore |-> "wstore_in"]            \* line 157

\* clawdbot_dialog_proxy.py:119-130, the body of _cleanup
CleanedCache(p) ==
    [k \in {x \in DOMAIN p.cache : ~(p.now - p.cache[x].created_ts > CACHE_TTL_SEC)} |->
        p.cache[k]]

JobDone(p, k) == k \in DOMAIN p.w /\ p.w[k].pc \in {"done", "failed"}

CleanedPending(p) ==
    [k \in {x \in DOMAIN p.pending :
               ~(JobDone(p, x) \/ p.now - p.pending[x].created_ts > CACHE_TTL_SEC + 60)} |->
        p.pending[k]]

Cleaned(p) == [p EXCEPT !.cache = CleanedCache(p), !.pending = CleanedPending(p)]

\* clawdbot_dialog_proxy.py:178-182 and 204-211: the reply to a poll
PollReply(p, key) ==
    IF key \in DOMAIN p.cache THEN ReplyOf(p.cache[key].payload)
    ELSE IF key \in DOMAIN p.pending THEN WAITING_TEXT
    ELSE NOTHING_YET

Returned_H(p, reply) ==
    [p EXCEPT !.h.pc = "idle", !.h.reply = Some(reply), !.served = @ + 1]

\* webhook, handle_user_text lines 199-204 and 213: a request arrives
Receive(key, text) ==
    /\ px.h.pc = "idle"
    /\ px.served < MaxRequests
    /\ px' = [px EXCEPT !.h = [pc |-> IF _is_poll(text) THEN "poll" ELSE "front",
                                key |-> key, text |-> text, out |-> None, reply |-> None]]

\* _call_tv_service by the handler (lines 214-231) or by a background job
\* (lines 155-161)
CallTv(t, outcome, out) ==
    /\ PcOf(t) \in {"front", "call"}
    /\ IF t = "H"
       THEN px' = CASE outcome = "ok" -> [px EXCEPT !.h.pc = "store", !.h.out = Some(out)]
                    [] outcome = "timeout" -> [px EXCEPT !.h.pc = "bg"]
                    [] OTHER -> Returned_H(px, BUSY_TEXT)
       ELSE px' = IF outcome = "ok"
                  THEN [px EXCEPT !.w[t] = [pc |-> "wstore", out |-> Some(out)]]
                  ELSE [px EXCEPT !.w[t].pc = "failed"]

\* with _LOCK: the thread waits until the lock is free and takes it
Acquire(t) ==
    /\ PcOf(t) \in DOMAIN AfterAcquire
    /\ px.lock = "free"
    /\ px' = [SetPc(px, t, AfterAcquire[PcOf(t)]) EXCEPT !.lock = t]

\* the block under the lock, and the release at its end
Critical(t) ==
    /\ px.lock = t
    /\ PcOf(t) \in {"store_in", "poll_look", "bg_submit", "clean_in", "dbg_count",
                     "wstore_in"}
    /\ px' = [(CASE PcOf(t) = "store_in" ->             \* lines 218-220
                      Returned_H([px EXCEPT !.cache =
                                     (px.h.key :> [created_ts |-> px.now,
                                                   payload |-> Val(px.h.out)]) @@ @],
                                 ReplyOf(Val(px.h.out)))
                 [] PcOf(t) = "poll_look" ->            \* lines 177-182, 204-211
                      Returned_H(Cleaned(px), PollReply(Cleaned(px), px.h.key))
                 [] PcOf(t) = "bg_submit" ->            \* lines 167-172, 227
                      LET q == Cleaned(px)
                      IN  IF px.h.key \in DOMAIN q.pending
                          THEN Returned_H(q, WAITING_TEXT)
                          ELSE Returned_H(
                                 [q EXCEPT !.w = (px.h.key :> [pc |-> "call", out |-> None]) @@ @,
                                           !.pending = (px.h.key :> [created_ts |-> px.now]) @@ @],
                                 WAITING_TEXT)
                 [] PcOf(t) = "clean_in" ->             \* lines 119-130, 139
                      [Cleaned(px) EXCEPT !.c = "sleep"]
                 [] PcOf(t) = "dbg_count" ->            \* lines 271-277
                      [Cleaned(px) EXCEPT !.d = "idle"]
                 [] PcOf(t) = "wstore_in" ->            \* lines 158-159
                      [px EXCEPT !.cache = (t :> [created_ts |-> px.now,
                                                  payload |-> Val(px.w[t].out)]) @@ @,
                                 !.w[t].pc = "done"])
                EXCEPT !.lock = "free"]

\* clawdbot_dialog_proxy.py:132-139: the daemon wakes and calls _cleanup
DaemonWake ==
    /\ px.c = "sleep"
    /\ px' = [px EXCEPT !.c = "clean"]

\* clawdbot_dialog_proxy.py:267-270: GET /debug/state arrives
DebugState ==
    /\ px.d = "idle"
    /\ px' = [px EXCEPT !.d = "dbg"]

\* time passes
ProxyTick ==
    \E n \in PX_NOWS : n > px.now /\ px' = [px EXCEPT !.now = n]

ProxyInit ==
    /\ proc = "proxy"
    /\ WebInit /\ CliInit /\ db = DB_FULL
    /\ fn = NoFn /\ rc = NoRc /\ px = NoPx

ProxyNext ==
    /\ proc = "proxy"
    /\ \/ \E key \in PX_KEYS, text \in PX_TEXTS : Receive(key, text)
       \/ \E t \in PX_THREADS, outcome \in PX_OUTCOMES, out \in PX_PAYLOADS :
             CallTv(t, outcome, out)
       \/ \E t \in PX_THREADS : Acquire(t)
       \/ \E t \in PX_THREADS : Critical(t)
       \/ DaemonWake
       \/ DebugState
       \/ ProxyTick
    /\ UNCHANGED <<proc, db, webVars, cliVars, fnVars, raceVars>>

ProxySpec == ProxyInit /\ [][ProxyNext]_vars

\* thread t waits for _LOCK while holding it: only t itself could release it
SelfBlocked(t) == PcOf(t) \in DOMAIN AfterAcquire /\ px.lock = t

\* C20: a poll message always returns (with the cached reply, the waiting text
\* or the nothing-to-fetch reply): the handler of a poll never waits for a
\* lock that only it can release
C20_PollReturns ==
    proc = "proxy" => ~(_is_poll(px.h.text) /\ SelfBlocked("H"))

\* C21: when the direct call times out or the connection fails, the handler
\* returns the waiting text and a background job for the key is pending (one at
\* most): the handler of such a request never waits for a lock that only it
\* can release, and once it has returned the waiting text the key is pending
C21_TimeoutGivesWaiting ==
    proc = "proxy" =>
        /\ ~(~_is_poll(px.h.text) /\ PcOf("H") = "bg_cleanup" /\ SelfBlocked("H"))
        /\ (px.h.pc = "idle" /\ px.h.reply = Some(WAITING_TEXT) /\ ~_is_poll(px.h.text))
              => px.h.key \in DOMAIN px.pending

\* C25: no thread blocks forever on _LOCK: no thread waits for the lock while
\* holding it itself
C25_NoSelfDeadlock ==
    proc = "proxy" => \A t \in PX_THREADS : ~SelfBlocked(t)

----------------------------------------------------------------------------
(* More functions called by themselves: the call is drawn in the initial   *)
(* state, one step returns its value.                                      *)

\* app.py:79-84
_json_ok(reply, done, state) ==
    [status |-> 200, ok |-> TRUE, reply |-> Some(reply), error |-> None,
     done |-> done, state |-> state]

_json_err(msg, status_code) ==
    [status |-> status_code, ok |-> FALSE, reply |-> None, error |-> Some(msg),
     done |-> None, state |-> None]

HOOK_GENERATE_FAILED == <<"generate failed">>      \* app.py:836

\* app.py:797-850, POST /webhook on the pack _get_session returned, for a text
\* that is not empty; done and state are the fields of the answer's raw part
webhook(pack0, sid, text, req_state, rows, today, src_ok) ==
    Let(IF NotNone(req_state)
        THEN [pack0 EXCEPT !.state = _normalize_state(req_state)] ELSE pack0, LAMBDA pack :
    Let(parse_slots(text), LAMBDA slots :
        IF IsShowMore(text)
        THEN IF Truthy(pack.last_reply_full)
             THEN [pack |-> pack,
                   resp |-> _json_ok(Val(pack.last_reply_full), Some(TRUE),
                                     Some(_normalize_state(IF NotNone(pack.last_state)
                                                           THEN pack.last_state
                                                           ELSE Some(pack.state))))]
             ELSE [pack |-> pack, resp |-> _json_ok(NOTHING_TO_SHOW, None, None)]
        ELSE IF slots._reset
        THEN [pack |-> ResetPack(pack),
              resp |-> _json_ok(RESET_REPLY, Some(FALSE), Some(EMPTY_STATE))]
        ELSE
        Let(_merge_state(_normalize_state(Some(pack.state)), slots), LAMBDA state :
        Let([pack EXCEPT !.state = state], LAMBDA p :
        Let(_next_missing_slot_4q(state), LAMBDA missing :
            IF NotNone(missing)
            THEN [pack |-> p,
                  resp |-> _json_ok(QUESTION_TEXT_4Q[Val(missing)], Some(FALSE), Some(state))]
            ELSE IF ~src_ok
            THEN [pack |-> p, resp |-> _json_err(HOOK_GENERATE_FAILED, 500)]
            ELSE Let(Generated(rows, state, today), LAMBDA g :
                 [pack |-> CompletedPack(p, state, g.reply_full, g.reply_short, g.structured),
                  resp |-> _json_ok(g.reply_short, Some(TRUE), Some(state))]))))))

Fn2Call(op, arg) == [NoFn EXCEPT !.op = op, !.arg = arg]

\* the pack of the session when the request arrives: new, with the size
\* answered, with a completed round in its cache
HOOK_PACKS ==
    {NewPack(0),
     api_dialog_3p2(NewPack(0), "t1", <<W_75>>, None, DB_FULL, START_MONTH, TRUE).pack,
     api_dialog_3p2(NewPack(0), "t1", <<W_75, W_13K, W_PS5, W_ONLYTCL>>, None,
                    DB_FULL, START_MONTH, TRUE).pack}

\* the same request sent to POST /api/dialog/3p2 and to POST /webhook
HOOK_CALLS ==
    {Fn2Call("webhook", <<p, r.text, r.state, ok>>) :
        p \in HOOK_PACKS, r \in REQUESTS, ok \in BOOLEAN}

\* stores with n 75-inch models of 2026 (9001 to 9000 + n yuan) and one
\* model of 2024 at 3000 yuan
R_CHEAP == Row("TCL", "CHEAP", 75, Some(3000), Some(<<2024, 5>>), Some(12), Some(900), Some(1))

BigRows(n) ==
    [i \in 1..n |-> Row("TCL", "N" \o ToString(i), 75, Some(9000 + i), Some(<<2026, 3>>),
                        Some(10), Some(2000), Some(1))] \o <<R_CHEAP>>

BIG_SIZES == {0, 2, 3, 49, 50}

RUN_STATES ==
    {[CHAT_STATE EXCEPT !.brand_asked = TRUE],
     [CHAT_STATE EXCEPT !.brand_asked = TRUE, !.brand_mode = "only", !.brand_list = <<"tcl">>]}

RUN_CALLS ==
    {Fn2Call("_run_3p2", <<BigRows(n), st>>) : n \in BIG_SIZES, st \in RUN_STATES}

\* run_reco.py:335-397, the scoring loop of get_top3 on the candidates: every
\* candidate with its score; base is the weighted sum before the penalties
score_all(cands, prof, today) ==
    LET normalized == Tuple([i \in 1..Len(cands) |-> BoolNormalized(cands[i], prof)])
    IN  [i \in 1..Len(cands) |->
            [tv |-> normalized[i],
             base |-> WeightedSum(normalized[i], normalized, prof, Len(METRICS)),
             _score |-> ScoreOf(normalized[i], normalized, prof, today)]]

\* penalty rules of a profile: every operator on the input lag against 14, and
\* one rule on the brightness
PEN_OPS == {"is_null", "not_null", ">", ">=", "<", "<=", "=="}
PEN_RULES ==
    {[metric |-> "input_lag_ms_60hz", op |-> o, value |-> 14, multiplier |-> <<4, 5>>] :
        o \in PEN_OPS}
    \cup {[metric |-> "peak_brightness_nits", op |-> "<", value |-> 1000,
           multiplier |-> <<9, 10>>]}

PEN_LISTS == {<<>>} \cup {<<a>> : a \in PEN_RULES} \cup {<<a, b>> : a, b \in PEN_RULES}

\* candidates: the input lag absent, below, at and above 14; V8 is older than
\* 12 months in June 2026
SCORE_POOL == {R_Q9, R_Q10K, R_N5, R_V8}
SCORE_LISTS ==
    {<<a>> : a \in SCORE_POOL} \cup {<<a, b>> : a, b \in SCORE_POOL}

SCORE_CALLS ==
    {Fn2Call("score_all", <<c, [PROFILES.ps5 EXCEPT !.penalties = pens], <<2026, 6>> >>) :
        c \in SCORE_LISTS, pens \in PEN_LISTS}

\* launch periods: absent, empty, without a month, 13 and 12 and 11 months
\* before June 2026, the current month, a later month, two years before
DECAY_DATES ==
    {None, Some(NO_DATE), Some(<<2024, 0>>), Some(<<2025, 5>>), Some(<<2025, 6>>),
     Some(<<2025, 7>>), Some(<<2026, 6>>), Some(<<2026, 9>>), Some(<<2024, 6>>)}

DECAY_POOL ==
    {[R_N5 EXCEPT !.launch_date = d] : d \in DECAY_DATES}
    \cup {[R_V8 EXCEPT !.launch_date = d] : d \in {Some(<<2025, 5>>), Some(<<2025, 6>>)}}

DECAY_CALLS ==
    {Fn2Call("score_all", <<c, PROFILES.ps5, t>>) :
        c \in {<<a>> : a \in DECAY_POOL} \cup {<<a, R_Q10K>> : a \in DECAY_POOL},
        t \in {<<2026, 6>>, <<2026, 7>>}}

\* one answer to the size question, given to both parsers
SIZE_TEXTS == {<<w>> : w \in SizeWords \cup UnitWords \cup {W_75, W_HELLO}}
SIZE_CALLS == {Fn2Call("size", <<t>>) : t \in SIZE_TEXTS}

FN2_CALLS == HOOK_CALLS \cup RUN_CALLS \cup SCORE_CALLS \cup DECAY_CALLS \cup SIZE_CALLS

Fn2Init ==
    /\ proc = "fn2"
    /\ WebInit /\ CliInit /\ db = DB_FULL
    /\ fn \in FN2_CALLS /\ rc = NoRc /\ px = NoPx

Fn2Return(op, value) ==
    /\ proc = "fn2"
    /\ fn.op = op
    /\ IsNone(fn.ret)
    /\ fn' = [fn EXCEPT !.ret = Some(value)]
    /\ UNCHANGED <<proc, db, webVars, cliVars, raceVars, proxyVars>>

\* both endpoints on the same pack with the same text and state
CallWebhook ==
    Fn2Return("webhook",
              [api |-> api_dialog_3p2(fn.arg[1], "t1", fn.arg[2], fn.arg[3], db, START_MONTH,
                                      fn.arg[4]),
               hook |-> webhook(fn.arg[1], "t1", fn.arg[2], fn.arg[3], db, START_MONTH,
                                fn.arg[4])])

\* Dialogue3p2._run_3p2(st) over the store
CallRun3p2 == Fn2Return("_run_3p2", Dialogue3p2_run_3p2(fn.arg[1], fn.arg[2]))

\* the scoring loop of get_top3 on candidates, with a profile, in a month
CallScoreAll == Fn2Return("score_all", score_all(fn.arg[1], fn.arg[2], fn.arg[3]))

\* dialogue_3p2._safe_size(text) and parse_slots(text)["size"]
CallSize ==
    Fn2Return("size", [cli |-> _safe_size(fn.arg[1]), web |-> parse_slots(fn.arg[1]).size])

Fn2Next ==
    \/ CallWebhook
    \/ CallSize
    \/ CallScoreAll
    \/ CallRun3p2

Fn2Spec == Fn2Init /\ [][Fn2Next]_vars

Returned2(op) == proc = "fn2" /\ fn.op = op /\ NotNone(fn.ret)

\* C22: /webhook is equivalent to /api/dialog/3p2: the same pack, text and state
\* give the same stored state and cached result, the same reply text and the
\* same done flag (a missing flag read as false)
C22_WebhookEquivalent ==
    Returned2("webhook") =>
        LET r == Val(fn.ret)
        IN  /\ r.hook.pack = r.api.pack
            /\ r.hook.resp.reply = Some(r.api.resp.reply)
            /\ (r.hook.resp.done = Some(TRUE)) = r.api.resp.done

\* the stored state of a session before a request; a session without an entry
\* starts from the empty state
PriorState(sid) == IF sid \in DOMAIN _SESS THEN _SESS[sid].state ELSE EMPTY_STATE

\* the slots a text may fill while the question for slot asked is pending
SlotsOf(asked) == IF asked = "brand" THEN {"brand", "brand_any"} ELSE {asked}

\* C23: an input that is no command is parsed only for the slot being asked: a
\* web request without client state that ends with a question changes no slot
\* other than the one that was asked before it
C23_OnlyAskedSlotChanges ==
    [][( /\ obs'.op = "dialog" /\ obs'.kind = "question"
         /\ ~obs'.client_state
         /\ now' = now /\ db' = db
         /\ obs'.fresh = (obs'.sid \notin DOMAIN _SESS) )
          => \A k \in {"size", "budget", "scene", "brand", "brand_any"}
                   \ SlotsOf(Val(_next_missing_slot_4q(PriorState(obs'.sid)))) :
                _SESS'[obs'.sid].state[k] = PriorState(obs'.sid)[k]]_vars

\* the cached result of a pack
CacheOf(pack) ==
    <<pack.last_reply_full, pack.last_reply_short, pack.last_structured, pack.last_state>>

PriorCache(sid) == IF sid \in DOMAIN _SESS THEN CacheOf(_SESS[sid]) ELSE CacheOf(NewPack(0))

\* the session has an entry that is not older than the TTL, or no entry
Live(sid) == sid \in DOMAIN _SESS => now - _SESS[sid]._ts <= _SESS_TTL_SEC

AllCandidates ==
    rank_newest_first(fn.arg[1], Val(fn.arg[2].size), Val(fn.arg[2].scene),
                      _norm_brand(_brand_for_tool(fn.arg[2])), fn.arg[2].budget_max,
                      YEAR_PREFER, POOL_LIMIT)

\* those in budget and outside the Top-3 the call returned
Alternates ==
    LET top3 == Val(fn.ret).top3
    IN  {r \in Range(AllCandidates) :
            /\ NotNone(r.street_rmb) /\ Val(r.street_rmb) > 0
            /\ Val(r.street_rmb) <= Val(fn.arg[2].budget_max)
            /\ r.model \notin {top3[i].model : i \in 1..Len(top3)}}

\* C26: the lowest-price alternate of Dialogue3p2._run_3p2 is the cheapest
\* in-budget candidate outside Top-3 among all the candidates of the query,
\* whatever the size of the pool
C26_LowOverWholePool ==
    Returned2("_run_3p2") =>
        LET low == Val(fn.ret).low_best
        IN  /\ IsNone(low) = (Alternates = {})
            /\ NotNone(low) =>
                  \A r \in Alternates : Val(Val(low).price_cny) <= Val(r.street_rmb)

\* the trigger condition of a penalty rule on the metric value x
Triggered(pen, x) ==
    CASE pen.op = "is_null" -> IsNone(x)
      [] pen.op = "not_null" -> NotNone(x)
      [] pen.op = ">" -> NotNone(x) /\ Val(x) > pen.value
      [] pen.op = ">=" -> NotNone(x) /\ Val(x) >= pen.value
      [] pen.op = "<" -> NotNone(x) /\ Val(x) < pen.value
      [] pen.op = "<=" -> NotNone(x) /\ Val(x) <= pen.value
      [] pen.op = "==" -> NotNone(x) /\ Val(x) = pen.value

\* score times the multipliers of the triggered rules among the first n
RECURSIVE TimesTriggered(_, _, _, _)
TimesTriggered(score, tv, pens, n) ==
    IF n = 0 THEN score
    ELSE IF Triggered(pens[n], tv[pens[n].metric])
         THEN QMul(TimesTriggered(score, tv, pens, n - 1), pens[n].multiplier)
         ELSE TimesTriggered(score, tv, pens, n - 1)

Decay(tv, today) ==
    IF NotNone(months_ago(tv.launch_date, today))
       /\ Val(months_ago(tv.launch_date, today)) > AGE_LIMIT_MONTHS
    THEN OLD_MULTIPLIER ELSE Q1

\* C27: the final score of get_top3 is the base score times the multipliers of
\* exactly the triggered penalty rules, times the recency factor; a comparison
\* rule on an absent metric triggers nothing; scoring drops no candidate
C27_PenaltiesExactlyTriggered ==
    Returned2("score_all") =>
        LET r == Val(fn.ret)
            pens == fn.arg[2].penalties
        IN  /\ Len(r) = Len(fn.arg[1])
            /\ \A i \in 1..Len(r) :
                  r[i]._score = QMul(TimesTriggered(r[i].base, r[i].tv, pens, Len(pens)),
                                     Decay(r[i].tv, fn.arg[3]))

\* a candidate without input lag was scored under a comparison rule and an
\* is-absent rule on the input lag: only the second lowered its score
C27_Witness ==
    /\ Returned2("score_all")
    /\ Len(fn.arg[2].penalties) = 2
    /\ fn.arg[2].penalties[1].op = "<" /\ fn.arg[2].penalties[1].metric = "input_lag_ms_60hz"
    /\ fn.arg[2].penalties[2].op = "is_null"
    /\ \E i \in 1..Len(Val(fn.ret)) :
          /\ IsNone(Val(fn.ret)[i].tv.input_lag_ms_60hz)
          /\ Val(fn.ret)[i].base # Q0
          /\ Val(fn.ret)[i]._score = QMul(Val(fn.ret)[i].base, <<4, 5>>)

\* the launch period d is known and lies strictly more than 12 months before
\* the month today
LongAgo(d, today) ==
    /\ NotNone(d) /\ Val(d) # NO_DATE /\ Val(d)[2] \in 1..12
    /\ Val(d)[1] * 12 + Val(d)[2] + 12 < today[1] * 12 + today[2]

\* C28: get_top3 multiplies a candidate's score by 0.92 exactly when its launch
\* period is known and strictly more than 12 months before the current month
C28_DecayExactlyWhenLongAgo ==
    Returned2("score_all") =>
        LET r == Val(fn.ret)
            pens == fn.arg[2].penalties
        IN  \A i \in 1..Len(r) :
              LET p == Penalized(r[i].base, r[i].tv, pens, Len(pens))
              IN  r[i]._score = IF LongAgo(r[i].tv.launch_date, fn.arg[3])
                                THEN QMul(p, OLD_MULTIPLIER) ELSE p

\* a candidate launched exactly 12 months before the current month was scored
\* beside a newer one, with a score that is not 0 and was not lowered
C28_Witness ==
    /\ Returned2("score_all")
    /\ fn.arg[3] = <<2026, 6>>
    /\ Len(Val(fn.ret)) = 2
    /\ Val(fn.ret)[1].tv.launch_date = Some(<<2025, 6>>)
    /\ Val(fn.ret)[1]._score # Q0
    /\ Val(fn.ret)[1]._score = Val(fn.ret)[1].base

\* the integer in a one-word text, if it has one
Typed(text) ==
    IF text[1] \in SizeWords \cup UnitWords THEN Some(NumOf(text[1]))
    ELSE IF text[1] = W_75 THEN Some(75) ELSE None

\* C29: both size parsers accept the integer n of the input iff 20 <= n <= 120,
\* with or without the unit: they accept and reject the same sizes
C29_SameSizesAccepted ==
    Returned2("size") =>
        LET r == Val(fn.ret)
            want == IF NotNone(Typed(fn.arg[1])) /\ 20 <= Val(Typed(fn.arg[1]))
                       /\ Val(Typed(fn.arg[1])) <= 120
                    THEN Typed(fn.arg[1]) ELSE None
        IN  r.cli = want /\ r.web = want

\* the slots of a Dialogue3p2 state are filled as a prefix of the fixed order
PrefixFilled(st) ==
    /\ NotNone(st.budget_max) => NotNone(st.size)
    /\ NotNone(st.scene) => NotNone(st.budget_max)
    /\ st.brand_asked => NotNone(st.scene)
    /\ (st.brand_mode # "any" \/ st.brand_list # <<>>) => st.brand_asked

\* C30: in every state reached from reset_state() by chat() calls that pass the
\* returned state on, the slots are filled as a prefix of the order size,
\* budget_max, scene, brand; _run_3p2 is invoked only with size, budget_max and
\* scene set and budget_max > 0
C30_SlotsFilledInOrder ==
    proc = "cli" =>
        /\ PrefixFilled(cli.state)
        /\ cliObs.kind \in {"done", "repeat"} =>
              /\ NotNone(cliObs.result)
              /\ NotNone(cli.state.size) /\ NotNone(cli.state.scene)
              /\ NotNone(cli.state.budget_max) /\ Val(cli.state.budget_max) > 0
        /\ cliObs.kind \notin {"done", "repeat"} => IsNone(cliObs.result)

\* the engine ran after the fourth answer, "only tcl"
C30_Witness ==
    /\ proc = "cli"
    /\ cliObs.kind = "done"
    /\ cli.state.brand_mode = "only" /\ cli.state.brand_list # <<>>
    /\ cli.state.brand_asked

====
